---- MODULE Spec2Model ----
(***************************************************************************)
(* A model of the secret resolvers of go.innotegrity.dev/types:            *)
(* ParseUsernamePasswordSecret, ParseGenericSecret, their UnmarshalText /  *)
(* UnmarshalJSON entry points, and the older ParseCredentialSecret.        *)
(*                                                                         *)
(* A Go string or []byte is a sequence of byte values (0..255), so that    *)
(* the regular expression, strings.SplitN, base64 and JSON are computed on *)
(* the bytes as the code computes them.                                    *)
(***************************************************************************)
EXTENDS Integers, Sequences, FiniteSets, TLC

(***************************************************************************)
(* Bytes and strings                                                       *)
(***************************************************************************)

\* The byte values of the characters the model names.
Ch ==
  [bs |-> 8, tab |-> 9, lf |-> 10, vt |-> 11, ff |-> 12, cr |-> 13, space |-> 32,
   bang |-> 33, quote |-> 34, plus |-> 43, comma |-> 44, minus |-> 45,
   dot |-> 46, slash |-> 47, zero |-> 48, nine |-> 57, colon |-> 58,
   eq |-> 61, upA |-> 65, upE |-> 69, upZ |-> 90, lbracket |-> 91,
   backslash |-> 92, rbracket |-> 93, a |-> 97, b |-> 98, e |-> 101,
   f |-> 102, n |-> 110, r |-> 114, t |-> 116, u |-> 117, z |-> 122,
   lbrace |-> 123, rbrace |-> 125, star |-> 42]

\* Every sequence over A of length at most n.
StrUpTo(A, n) == UNION {[1..k -> A] : k \in 0..n}

\* s[i..] (the empty string when i is past the end).
From(s, i) == SubSeq(s, i, Len(s))

\* strings.HasPrefix.
HasPrefix(s, p) == Len(s) >= Len(p) /\ SubSeq(s, 1, Len(p)) = p

\* The positions of byte c in s.
IndicesOf(s, c) == {i \in 1..Len(s) : s[i] = c}

Contains(s, c) == IndicesOf(s, c) # {}

Min(S) == CHOOSE x \in S : \A y \in S : x <= y

Max(S) == CHOOSE x \in S : \A y \in S : x >= y

\* strings.SplitN(s, ":", 2): one part when s holds no ':', else the text
\* before the first ':' and everything after it.
SplitN2(s) ==
  IF ~Contains(s, Ch.colon) THEN <<s>>
  ELSE LET i == Min(IndicesOf(s, Ch.colon))
       IN <<SubSeq(s, 1, i - 1), From(s, i + 1)>>

\* The white space strings.TrimSpace removes (the ASCII part).
WhiteSpace == {Ch.tab, Ch.lf, Ch.vt, Ch.ff, Ch.cr, Ch.space}

\* strings.TrimSpace.
TrimSpace(s) ==
  LET keep == {i \in 1..Len(s) : s[i] \notin WhiteSpace}
  IN IF keep = {} THEN <<>> ELSE SubSeq(s, Min(keep), Max(keep))

ToLower(s) ==
  LET \* strings.ToLower on ASCII letters.
      LowerByte(c) ==
        IF c >= Ch.upA /\ c <= Ch.upZ THEN c + (Ch.a - Ch.upA) ELSE c
  IN
    [i \in 1..Len(s) |-> LowerByte(s[i])]

\* path.Ext: the suffix beginning at the final '.' of the final element of
\* the path (the '.' included), empty when there is no '.'.
PathExt(p) ==
  LET stops == {i \in 1..Len(p) : p[i] = Ch.dot \/ p[i] = Ch.slash}
  IN IF stops = {} \/ p[Max(stops)] = Ch.slash THEN <<>>
     ELSE From(p, Max(stops))

(***************************************************************************)
(* encoding/base64, StdEncoding (padded, not strict)                       *)
(***************************************************************************)

\* base64.StdEncoding.EncodeToString.
RECURSIVE EncodeToString(_)
EncodeToString(src) ==
  LET \* The character of a 6-bit value: A-Z a-z 0-9 + /.
      B64Char(v) ==
        IF v < 26 THEN Ch.upA + v
        ELSE IF v < 52 THEN Ch.a + (v - 26)
        ELSE IF v < 62 THEN Ch.zero + (v - 52)
        ELSE IF v = 62 THEN Ch.plus ELSE Ch.slash
  IN
    IF Len(src) = 0 THEN <<>>
    ELSE IF Len(src) = 1 THEN
      <<B64Char(src[1] \div 4), B64Char((src[1] % 4) * 16), Ch.eq, Ch.eq>>
    ELSE IF Len(src) = 2 THEN
      <<B64Char(src[1] \div 4),
        B64Char((src[1] % 4) * 16 + src[2] \div 16),
        B64Char((src[2] % 16) * 4), Ch.eq>>
    ELSE
      <<B64Char(src[1] \div 4),
        B64Char((src[1] % 4) * 16 + src[2] \div 16),
        B64Char((src[2] % 16) * 4 + src[3] \div 64),
        B64Char(src[3] % 64)>> \o EncodeToString(From(src, 4))

\* The bytes of one quantum of four characters; the last quantum may end in
\* "==" (one byte) or "=" (two bytes). The bits left over are dropped.
QuantumBytes(q) ==
  LET \* The 6-bit value of a character of the alphabet.
      B64Val(c) ==
        IF c >= Ch.upA /\ c <= Ch.upZ THEN c - Ch.upA
        ELSE IF c >= Ch.a /\ c <= Ch.z THEN c - Ch.a + 26
        ELSE IF c >= Ch.zero /\ c <= Ch.nine THEN c - Ch.zero + 52
        ELSE IF c = Ch.plus THEN 62 ELSE 63
  IN
    LET v1 == B64Val(q[1])
        v2 == B64Val(q[2])
        v3 == B64Val(q[3])
        v4 == B64Val(q[4])
        b1 == v1 * 4 + v2 \div 16
        b2 == (v2 % 16) * 16 + v3 \div 4
        b3 == (v3 % 4) * 64 + v4
    IN IF q[3] = Ch.eq THEN <<b1>>
       ELSE IF q[4] = Ch.eq THEN <<b1, b2>>
       ELSE <<b1, b2, b3>>

\* Whether quantum q is well formed; padding is allowed in the last one only.
QuantumOK(q, last) ==
  LET IsB64Char(c) ==
        \/ c >= Ch.upA /\ c <= Ch.upZ
        \/ c >= Ch.a /\ c <= Ch.z
        \/ c >= Ch.zero /\ c <= Ch.nine
        \/ c = Ch.plus
        \/ c = Ch.slash
  IN
    /\ IsB64Char(q[1])
    /\ IsB64Char(q[2])
    /\ \/ IsB64Char(q[3]) /\ IsB64Char(q[4])
       \/ last /\ IsB64Char(q[3]) /\ q[4] = Ch.eq
       \/ last /\ q[3] = Ch.eq /\ q[4] = Ch.eq

RECURSIVE DecodeQuanta(_)
DecodeQuanta(s) ==
  IF Len(s) = 0 THEN [ok |-> TRUE, data |-> <<>>]
  ELSE IF Len(s) < 4 THEN [ok |-> FALSE, data |-> <<>>]
  ELSE LET q == SubSeq(s, 1, 4)
           rest == DecodeQuanta(From(s, 5))
       IN IF QuantumOK(q, Len(s) = 4) /\ rest.ok
          THEN [ok |-> TRUE, data |-> QuantumBytes(q) \o rest.data]
          ELSE [ok |-> FALSE, data |-> <<>>]

\* base64.StdEncoding.DecodeString: '\r' and '\n' are skipped wherever they
\* stand, then the text must be whole quanta. ok is err == nil.
DecodeString(s) ==
  DecodeQuanta(SelectSeq(s, LAMBDA c : c # Ch.cr /\ c # Ch.lf))

(***************************************************************************)
(* encoding/json: the grammar (RFC 8259) without \u escapes, and Unmarshal *)
(* into the structs of this package. Bytes stand for themselves: the model *)
(* draws file contents and inputs from ASCII, where a byte is a character. *)
(***************************************************************************)

\* The first position at or after i that holds no white space (Len(s) + 1
\* when there is none).
SkipWS(s, i) ==
  LET non == {j \in i..Len(s) : s[j] \notin {Ch.space, Ch.tab, Ch.lf, Ch.cr}}
  IN IF non = {} THEN Len(s) + 1 ELSE Min(non)

IsDigit(c) == c >= Ch.zero /\ c <= Ch.nine

\* The first position at or after i that holds no digit.
SkipDigits(s, i) ==
  LET non == {j \in i..Len(s) : ~IsDigit(s[j])}
  IN IF non = {} THEN Len(s) + 1 ELSE Min(non)

\* A scanned value: ok, the position after it, its kind, the text of a string
\* and the members (<<key, value>>, in order) of an object.  When the scan
\* fails, next is the position of the byte the scanner refused (one past the
\* end: the input ended too early).
JsonFail(at) == [ok |-> FALSE, next |-> at, kind |-> "invalid", str |-> <<>>,
                 members |-> <<>>]

JsonVal(next, kind, str, members) ==
  [ok |-> TRUE, next |-> next, kind |-> kind, str |-> str,
   members |-> members]

\* The rest of a string literal whose opening quote stands before j.
RECURSIVE ScanChars(_, _, _)
ScanChars(s, j, acc) ==
  LET \* The byte an escape \c stands for (c one of " \ / b f n r t).
      Unescape(c) ==
        IF c = Ch.n THEN Ch.lf
        ELSE IF c = Ch.r THEN Ch.cr
        ELSE IF c = Ch.t THEN Ch.tab
        ELSE IF c = Ch.b THEN Ch.bs
        ELSE IF c = Ch.f THEN Ch.ff
        ELSE c
      SimpleEscapes ==
        {Ch.quote, Ch.backslash, Ch.slash, Ch.b, Ch.f, Ch.n, Ch.r, Ch.t}
      \* Whether the string literal breaks off at j: a control character, or a
      \* backslash that begins none of the simple escapes.
      BadStringByte ==
        IF s[j] = Ch.backslash
        THEN j + 1 > Len(s) \/ s[j + 1] \notin SimpleEscapes
        ELSE s[j] < Ch.space
  IN
    IF j > Len(s) THEN JsonFail(j)
    ELSE IF s[j] = Ch.quote THEN JsonVal(j + 1, "string", acc, <<>>)
    ELSE IF BadStringByte
      THEN JsonFail(IF s[j] = Ch.backslash THEN j + 1 ELSE j)
    ELSE ScanChars(s, IF s[j] = Ch.backslash THEN j + 2 ELSE j + 1,
                   Append(acc, IF s[j] = Ch.backslash
                               THEN Unescape(s[j + 1]) ELSE s[j]))

ScanNumber(s, i) ==
  LET \* A number: -? (0 | [1-9][0-9]*) (. [0-9]+)? ([eE] [+-]? [0-9]+)?
      \* Each part takes the position the part before it ended at and gives
      \* the position after itself; -p says the scanner refused the byte at p.
      NumberSign == IF s[i] = Ch.minus THEN i + 1 ELSE i
      NumberInt(j) ==
        IF j > Len(s) \/ ~IsDigit(s[j]) THEN 0 - j
        ELSE IF s[j] = Ch.zero THEN j + 1
        ELSE SkipDigits(s, j)
      \* One digit at least from j on.
      DigitsFrom(j) ==
        IF j <= Len(s) /\ IsDigit(s[j]) THEN SkipDigits(s, j) ELSE 0 - j
      NumberFrac(j) ==
        IF j < 0 THEN j
        ELSE IF j <= Len(s) /\ s[j] = Ch.dot THEN DigitsFrom(j + 1)
        ELSE j
      NumberExp(j) ==
        IF j < 0 THEN j
        ELSE IF j <= Len(s) /\ s[j] \in {Ch.e, Ch.upE} THEN
          IF j + 1 <= Len(s) /\ s[j + 1] \in {Ch.plus, Ch.minus}
          THEN DigitsFrom(j + 2) ELSE DigitsFrom(j + 1)
        ELSE j
      NumberEnd(j) ==
        IF j < 0 THEN JsonFail(0 - j) ELSE JsonVal(j, "number", <<>>, <<>>)
  IN
    NumberEnd(NumberExp(NumberFrac(NumberInt(NumberSign))))

RECURSIVE ScanValue(_, _), ScanArray(_, _), ScanElements(_, _),
          ScanObject(_, _), ScanMembers(_, _, _)

\* The value that begins at i (white space already skipped).
ScanValue(s, i) ==
  LET \* One of the literals true, false, null: the scanner refuses the first
      \* byte that departs from it.
      Literal(lit, kind) ==
        LET off == {k \in 1..Len(lit) : i + k - 1 > Len(s) \/ s[i + k - 1] # lit[k]}
        IN IF off = {} THEN JsonVal(i + Len(lit), kind, <<>>, <<>>)
           ELSE JsonFail(i + Min(off) - 1)
  IN
    IF i > Len(s) THEN JsonFail(i)
    ELSE IF s[i] = Ch.quote THEN ScanChars(s, i + 1, <<>>)
    ELSE IF s[i] = Ch.minus \/ IsDigit(s[i]) THEN ScanNumber(s, i)
    ELSE IF s[i] = Ch.t THEN Literal(<<116, 114, 117, 101>>, "bool")       \* true
    ELSE IF s[i] = Ch.f THEN Literal(<<102, 97, 108, 115, 101>>, "bool")  \* false
    ELSE IF s[i] = Ch.n THEN Literal(<<110, 117, 108, 108>>, "null")      \* null
    ELSE IF s[i] = Ch.lbracket THEN ScanArray(s, SkipWS(s, i + 1))
    ELSE IF s[i] = Ch.lbrace THEN ScanObject(s, SkipWS(s, i + 1))
    ELSE JsonFail(i)

\* An array whose '[' and white space end before j.
ScanArray(s, j) ==
  IF j <= Len(s) /\ s[j] = Ch.rbracket THEN JsonVal(j + 1, "array", <<>>, <<>>)
  ELSE ScanElements(s, j)

\* The elements of an array from the one at i on.
ScanElements(s, i) ==
  LET \* After an element: ',' or ']' at k.
      ElementsGoOn(k) ==
        IF k > Len(s) THEN JsonFail(k)
        ELSE IF s[k] = Ch.rbracket THEN JsonVal(k + 1, "array", <<>>, <<>>)
        ELSE IF s[k] = Ch.comma THEN ScanElements(s, SkipWS(s, k + 1))
        ELSE JsonFail(k)
      \* After element v: its white space.
      ElementScanned(v) ==
        IF ~v.ok THEN v ELSE ElementsGoOn(SkipWS(s, v.next))
  IN ElementScanned(ScanValue(s, i))

\* An object whose '{' and white space end before j.
ScanObject(s, j) ==
  IF j <= Len(s) /\ s[j] = Ch.rbrace THEN JsonVal(j + 1, "object", <<>>, <<>>)
  ELSE ScanMembers(s, j, <<>>)

\* The members of an object from the key at i on; acc holds those before.
ScanMembers(s, i, acc) ==
  LET \* After a member: ',' or '}' at j.
      MembersGoOn(j, all) ==
        IF j > Len(s) THEN JsonFail(j)
        ELSE IF s[j] = Ch.rbrace THEN JsonVal(j + 1, "object", <<>>, all)
        ELSE IF s[j] = Ch.comma THEN ScanMembers(s, SkipWS(s, j + 1), all)
        ELSE JsonFail(j)
      \* After the member's value v: its white space.
      MemberScanned(key, v) ==
        IF ~v.ok THEN v
        ELSE MembersGoOn(SkipWS(s, v.next), Append(acc, <<key, v>>))
      \* After the key: ':' at c, white space, the value.
      ColonAt(key, c) ==
        IF c > Len(s) \/ s[c] # Ch.colon THEN JsonFail(c)
        ELSE MemberScanned(key, ScanValue(s, SkipWS(s, c + 1)))
      \* After the key k: its white space.
      KeyScanned(k) ==
        IF ~k.ok THEN k ELSE ColonAt(k.str, SkipWS(s, k.next))
  IN IF i > Len(s) \/ s[i] # Ch.quote THEN JsonFail(i)
     ELSE KeyScanned(ScanChars(s, i + 1, <<>>))

\* v when it is a whole document: nothing but white space after it.
WholeDocument(data, v) ==
  IF ~v.ok THEN v
  ELSE IF SkipWS(data, v.next) = Len(data) + 1 THEN v
  ELSE JsonFail(SkipWS(data, v.next))

\* The document data holds: one value with white space around it, or
\* a failed scan (json.Unmarshal's SyntaxError, found before anything is
\* stored).
JsonParse(data) == WholeDocument(data, ScanValue(data, SkipWS(data, 1)))

\* The errors json.Unmarshal returns, by kind.
JsonOK == "nil"

JsonSyntaxError == "SyntaxError"

JsonTypeError == "UnmarshalTypeError"

JsonBase64Error == "CorruptInputError"

\* The first error is the one Unmarshal keeps (decodeState.saveError).
SaveError(saved, err) == IF saved = JsonOK THEN err ELSE saved

\* A key selects a struct field by its tag, letter case ignored.
EqualFold(s, t) == ToLower(s) = ToLower(t)

KeyUsername == <<117, 115, 101, 114, 110, 97, 109, 101>>

KeyPassword == <<112, 97, 115, 115, 119, 111, 114, 100>>

KeyData == <<100, 97, 116, 97>>

\* One member stored into a string field: a string is stored, null leaves
\* the field alone, anything else is a type error and decoding goes on.
StoreString(old, v) ==
  IF v.kind = "string" THEN [val |-> v.str, err |-> JsonOK]
  ELSE IF v.kind = "null" THEN [val |-> old, err |-> JsonOK]
  ELSE [val |-> old, err |-> JsonTypeError]

\* One member of an object stored into a struct with the fields Password
\* and Username (tags "password" and "username"); other keys are skipped.
StoreCredMember(key, v, creds, saved) ==
  LET SetUsername(r) ==
        [val |-> [creds EXCEPT !.Username = r.val], err |-> SaveError(saved, r.err)]
      SetPassword(r) ==
        [val |-> [creds EXCEPT !.Password = r.val], err |-> SaveError(saved, r.err)]
  IN
    IF EqualFold(key, KeyUsername)
    THEN SetUsername(StoreString(creds.Username, v))
    ELSE IF EqualFold(key, KeyPassword)
    THEN SetPassword(StoreString(creds.Password, v))
    ELSE [val |-> creds, err |-> saved]

\* The members stored in their order; so is the struct so far.
RECURSIVE StoreCredMembers(_, _)
StoreCredMembers(members, so) ==
  IF members = <<>> THEN so
  ELSE StoreCredMembers(Tail(members),
         StoreCredMember(members[1][1], members[1][2], so.val, so.err))

\* A parsed document stored into the credential struct creds.
StoreCredsDoc(doc, creds) ==
  IF ~doc.ok THEN [val |-> creds, err |-> JsonSyntaxError]
  ELSE IF doc.kind = "null" THEN [val |-> creds, err |-> JsonOK]
  ELSE IF doc.kind = "object"
  THEN StoreCredMembers(doc.members, [val |-> creds, err |-> JsonOK])
  ELSE [val |-> creds, err |-> JsonTypeError]

\* json.Unmarshal(data, &creds) for the credential structs: the value creds
\* holds afterwards and the error.
UnmarshalCreds(data, creds) == StoreCredsDoc(JsonParse(data), creds)

\* One member stored into a []byte field: a string is base64-decoded, null
\* stores nil. (An array of numbers, which Unmarshal also accepts for a
\* []byte, is not among the documents of the model.)
StoreBytes(old, v) ==
  LET \* A decoded base64 string stored into a []byte field.
      SetBytes(dec) ==
        IF dec.ok THEN [val |-> dec.data, err |-> JsonOK]
        ELSE [val |-> old, err |-> JsonBase64Error]
  IN
    IF v.kind = "string" THEN SetBytes(DecodeString(v.str))
    ELSE IF v.kind = "null" THEN [val |-> <<>>, err |-> JsonOK]
    ELSE [val |-> old, err |-> JsonTypeError]

StoreDataMember(key, v, sec, saved) ==
  LET SetData(r) ==
        [val |-> [sec EXCEPT !.Data = r.val], err |-> SaveError(saved, r.err)]
  IN
    IF EqualFold(key, KeyData) THEN SetData(StoreBytes(sec.Data, v))
    ELSE [val |-> sec, err |-> saved]

RECURSIVE StoreDataMembers(_, _)
StoreDataMembers(members, so) ==
  IF members = <<>> THEN so
  ELSE StoreDataMembers(Tail(members),
         StoreDataMember(members[1][1], members[1][2], so.val, so.err))

StoreDataDoc(doc, sec) ==
  IF ~doc.ok THEN [val |-> sec, err |-> JsonSyntaxError]
  ELSE IF doc.kind = "null" THEN [val |-> sec, err |-> JsonOK]
  ELSE IF doc.kind = "object"
  THEN StoreDataMembers(doc.members, [val |-> sec, err |-> JsonOK])
  ELSE [val |-> sec, err |-> JsonTypeError]

\* json.Unmarshal(data, &sec) for jsonGenericSecret.
UnmarshalData(data, sec) == StoreDataDoc(JsonParse(data), sec)

\* json.Unmarshal(data, &val) for a string val.
UnmarshalString(data, val) ==
  LET \* What a SyntaxError's message quotes ("invalid character 'x' ..."):
      \* the byte the scanner refused, or none when data ended too early.
      Refused(doc) ==
        IF doc.next > Len(data) THEN {} ELSE {<<"input", <<data[doc.next]>> >>}
      StoreStringDoc(doc) ==
        IF ~doc.ok
        THEN [val |-> val, err |-> JsonSyntaxError, msg |-> Refused(doc)]
        ELSE StoreString(val, doc)
  IN
    StoreStringDoc(JsonParse(data))

RECURSIVE EscapeBytes(_)
EscapeBytes(s) ==
  LET Hex == <<48, 49, 50, 51, 52, 53, 54, 55, 56, 57, 97, 98, 99, 100, 101, 102>>
      \* The bytes json.Marshal writes for one ASCII byte of a string: the
      \* escapes of '"', '\', of the control characters (five have a short
      \* form) and of '<', '>', '&'.
      EscapeByte(c) ==
        IF c = Ch.quote \/ c = Ch.backslash THEN <<Ch.backslash, c>>
        ELSE IF c = Ch.bs THEN <<Ch.backslash, Ch.b>>
        ELSE IF c = Ch.ff THEN <<Ch.backslash, Ch.f>>
        ELSE IF c = Ch.lf THEN <<Ch.backslash, Ch.n>>
        ELSE IF c = Ch.cr THEN <<Ch.backslash, Ch.r>>
        ELSE IF c = Ch.tab THEN <<Ch.backslash, Ch.t>>
        ELSE IF c < 32 \/ c \in {38, 60, 62}
          THEN <<Ch.backslash, Ch.u, Ch.zero, Ch.zero,
                 Hex[(c \div 16) + 1], Hex[(c % 16) + 1]>>
        ELSE <<c>>
      \* A two-byte UTF-8 sequence (U+0080..U+07FF) heads s.  The inputs hold
      \* no code point beyond U+07FF.
      TwoByteRune ==
        Len(s) >= 2 /\ s[1] \in 194..223 /\ s[2] \in 128..191
  IN
    IF s = <<>> THEN <<>>
    ELSE IF s[1] < 128 THEN EscapeByte(s[1]) \o EscapeBytes(Tail(s))
    ELSE IF TwoByteRune THEN <<s[1], s[2]>> \o EscapeBytes(Tail(Tail(s)))
    \* invalid UTF-8 is written as the escape of U+FFFD
    ELSE <<Ch.backslash, Ch.u, Ch.f, Ch.f, Ch.f, 100>> \o EscapeBytes(Tail(s))

\* json.Marshal of a string.
MarshalString(s) == <<Ch.quote>> \o EscapeBytes(s) \o <<Ch.quote>>

\* json.Marshal of the test's struct {Username `json:"username"`;
\* Password `json:"password"`}: the fields in declaration order.
MarshalTestCreds(username, password) ==
  <<Ch.lbrace>> \o MarshalString(KeyUsername) \o <<Ch.colon>>
    \o MarshalString(username) \o <<Ch.comma>>
    \o MarshalString(KeyPassword) \o <<Ch.colon>>
    \o MarshalString(password) \o <<Ch.rbrace>>

(***************************************************************************)
(* Errors and the collaborators: environment, file system, secret store    *)
(***************************************************************************)

UnsupportedSecretProtocolError == 10

ParseSecretError == 11

SecretProviderError == 12

\* err == nil.
\* msg holds the texts an error's message quotes, each with where it came
\* from: "input" for a part of the secret the call was given, "read" for a
\* part of what the resolution read (a file's contents, a stored value).
NilErr == [isErr |-> FALSE, code |-> 0, attrs |-> {}, cause |-> "nil",
           msg |-> {}]

\* xerrors.New / Newf / Wrapf with a code; attrs are the WithAttr pairs and
\* cause names the wrapped error.  The message formats matches[2] wherever the
\* attribute is secret_name, filename or secret_var, except when the
\* configuration failed to load.
XErr(code, attrs, cause) ==
  [isErr |-> TRUE, code |-> code, attrs |-> attrs, cause |-> cause,
   msg |-> IF cause = "config" THEN {}
           ELSE {<<"input", a[2]>> : a \in {b \in attrs : b[1] # "credentials"}}]

\* errors.New / fmt.Errorf and the errors of encoding/json: no code.
PlainErr(cause) ==
  [isErr |-> TRUE, code |-> 0, attrs |-> {}, cause |-> cause, msg |-> {}]

\* The error that json.Unmarshal(data, &val) returned as u.err.
JsonErr(u) ==
  [PlainErr(u.err) EXCEPT !.msg = IF u.err = JsonSyntaxError THEN u.msg ELSE {}]

\* xerrors.Wrapf(code, err, "...: %s", ..., err.Error()).WithAttr(...) for the
\* error err of decoding what was read: the cause names err's kind, and the
\* message ends with err's message.
Wrapf(code, attrs, err) ==
  [XErr(code, attrs, IF err.code = 0 THEN err.cause ELSE "xerrors.Error")
     EXCEPT !.msg = @ \cup {<<"read", m[2]>> : m \in err.msg}]

\* The outside a resolution reads: env maps the set variables to their
\* values, files the existing paths to their contents, secrets the stored
\* names to a string value or a binary value (GetSecretValueOutput's
\* SecretString and SecretBinary; has is "not nil").
World(env, files, secrets) ==
  [env |-> env, files |-> files, secrets |-> secrets]

\* A GetSecretValueOutput holding a string, and one holding a binary.
StoredString(s) ==
  [SecretString |-> [has |-> TRUE, val |-> s],
   SecretBinary |-> [has |-> FALSE, val |-> <<>>]]

StoredBinary(b) ==
  [SecretString |-> [has |-> FALSE, val |-> <<>>],
   SecretBinary |-> [has |-> TRUE, val |-> b]]

\* os.Getenv: the empty string for a variable that is not set.
Getenv(w, name) == IF name \in DOMAIN w.env THEN w.env[name] ELSE <<>>

\* os.ReadFile.
ReadFile(w, path) ==
  IF path \in DOMAIN w.files THEN [ok |-> TRUE, data |-> w.files[path]]
  ELSE [ok |-> FALSE, data |-> <<>>]

\* What the secret store does on a call: it answers, config.LoadDefaultConfig
\* fails, or GetSecretValue fails (network, authorization).
AwsOutcomes == {"ok", "config_error", "fetch_error"}

\* client.GetSecretValue: an error for a failed call or a name that is not
\* stored, else the stored value.
GetSecretValue(w, aws, name) ==
  IF aws # "ok" \/ name \notin DOMAIN w.secrets
  THEN [ok |-> FALSE, out |-> StoredString(<<>>)]
  ELSE [ok |-> TRUE, out |-> w.secrets[name]]

\* What a resolution touched outside itself.
TouchConfig == <<"awsconfig", <<>> >>

TouchSecret(name) == <<"awssecret", name>>

TouchEnv(name) == <<"env", name>>

TouchFile(path) == <<"file", path>>

(***************************************************************************)
(* The scheme match                                                        *)
(***************************************************************************)

Scheme ==
  [awssecret |-> <<97, 119, 115, 115, 101, 99, 114, 101, 116>>,
   awsbinary |-> <<97, 119, 115, 115, 101, 99, 114, 101, 116, 43, 98, 105,
                   110, 97, 114, 121>>,
   base64 |-> <<98, 97, 115, 101, 54, 52>>,
   env |-> <<101, 110, 118>>,
   envbase64 |-> <<101, 110, 118, 43, 98, 97, 115, 101, 54, 52>>,
   file |-> <<102, 105, 108, 101>>,
   filebase64 |-> <<102, 105, 108, 101, 43, 98, 97, 115, 101, 54, 52>>,
   raw |-> <<114, 97, 119>>,
   plaintext |-> <<112, 108, 97, 105, 110, 116, 101, 120, 116>>]

\* "://"
SchemeSep == <<58, 47, 47>>

\* The match made without regard to case, as under the flag (?i).
MatchesAltFold(s, alt, atLeastOne) ==
  /\ HasPrefix(ToLower(s), alt \o SchemeSep)
  /\ ~Contains(From(s, Len(alt \o SchemeSep) + 1), Ch.lf)
  /\ atLeastOne => Len(From(s, Len(alt \o SchemeSep) + 1)) > 0

\* Whether s is ^alt://(.+)$ (atLeastOne) or ^alt://(.*)$: '.' matches any
\* character but '\n', and '$' only the end of the text.
MatchesAlt(s, alt, atLeastOne) ==
  LET pre == alt \o SchemeSep
      rest == From(s, Len(pre) + 1)
  IN /\ HasPrefix(s, pre)
     /\ ~Contains(rest, Ch.lf)
     /\ atLeastOne => Len(rest) > 0

\* regexp.FindStringSubmatch for ^(alts[1]|alts[2]|...)://(.+)$: the first
\* alternative with which the whole expression matches; ok is matches != nil,
\* scheme is matches[1] and payload matches[2].
FindStringSubmatch(alts, atLeastOne, s) ==
  LET hits == {k \in 1..Len(alts) : MatchesAlt(s, alts[k], atLeastOne)}
  IN IF hits = {} THEN [ok |-> FALSE, scheme |-> <<>>, payload |-> <<>>]
     ELSE [ok |-> TRUE, scheme |-> alts[Min(hits)],
           payload |-> From(s, Len(alts[Min(hits)]) + Len(SchemeSep) + 1)]

\* The alternatives of the three expressions, in their order.
UsernamePasswordSchemes ==
  <<Scheme.awssecret, Scheme.base64, Scheme.env, Scheme.envbase64,
    Scheme.file, Scheme.filebase64, Scheme.raw>>

GenericSchemes ==
  <<Scheme.awssecret, Scheme.awsbinary, Scheme.base64, Scheme.env,
    Scheme.envbase64, Scheme.file, Scheme.filebase64, Scheme.raw>>

CredentialSchemes == <<Scheme.base64, Scheme.plaintext, Scheme.file>>

(***************************************************************************)
(* ParseUsernamePasswordSecret                                             *)
(***************************************************************************)

\* UsernamePasswordSecret{} and GenericSecret{} (a nil and an empty Data are
\* both the empty sequence).
ZeroCreds == [Username |-> <<>>, Password |-> <<>>]

ZeroSecret == [Data |-> <<>>]

\* What a resolver returns, and what it touched on the way.
Ret(val, err, touched) == [val |-> val, err |-> err, touched |-> touched]

\* What Unmarshal leaves: the value the receiver holds after the call and the
\* error returned.
Unmarshalled(recv, err, touched) ==
  [recv |-> recv, err |-> err, touched |-> touched]

\* secret, err := Parse...(); if err != nil { return err }; *s = secret
StoreParsed(parsed, s) ==
  IF parsed.err.isErr THEN Unmarshalled(s, parsed.err, parsed.touched)
  ELSE Unmarshalled(parsed.val, NilErr, parsed.touched)

\* creds.Username, creds.Password = userpass[0], userpass[1], or err when
\* the split gave no two parts.
SplitCreds(userpass, err, touched) ==
  IF Len(userpass) # 2 THEN Ret(ZeroCreds, err, touched)
  ELSE Ret([Username |-> userpass[1], Password |-> userpass[2]], NilErr,
           touched)

\* Credentials decoded field by field into creds: a username that decoded
\* stays in what is returned when the password does not.
DecodedCredsKeepsUsername(username, password, attrs, first, touched) ==
  IF ~username.ok THEN
    Ret(ZeroCreds, XErr(ParseSecretError, attrs, JsonBase64Error), first)
  ELSE IF ~password.ok THEN
    Ret([Username |-> username.data, Password |-> <<>>],
        XErr(ParseSecretError, attrs, JsonBase64Error), touched)
  ELSE Ret([Username |-> username.data, Password |-> password.data], NilErr,
           touched)

\* The username and the password decoded from base64 one after the other;
\* first is what was touched when the username was decoded.
DecodedCreds(username, password, attrs, first, touched) ==
  IF ~username.ok THEN
    Ret(ZeroCreds, XErr(ParseSecretError, attrs, JsonBase64Error), first)
  ELSE IF ~password.ok THEN
    Ret(ZeroCreds, XErr(ParseSecretError, attrs, JsonBase64Error), touched)
  ELSE Ret([Username |-> username.data, Password |-> password.data], NilErr,
           touched)

\* json.Unmarshal(..., &creds) has returned u: the case's error return or
\* its fall to "return creds, nil".
CredsUnmarshalled(u, attrs, touched) ==
  IF u.err.isErr THEN
    Ret(u.recv, Wrapf(ParseSecretError, attrs, u.err), touched \cup u.touched)
  ELSE Ret(u.recv, NilErr, touched \cup u.touched)

\* json.Unmarshal(..., &encodedCreds) has returned u.
EncodedCredsUnmarshalled(u, attrs, touched) ==
  IF u.err.isErr THEN
    Ret(ZeroCreds, Wrapf(ParseSecretError, attrs, u.err), touched \cup u.touched)
  ELSE DecodedCreds(DecodeString(u.recv.Username),
                    DecodeString(u.recv.Password), attrs,
                    touched \cup u.touched, touched \cup u.touched)

RECURSIVE ParseUsernamePasswordSecret(_, _, _),
          UsernamePasswordCase(_, _, _), AwsCreds(_, _, _),
          FileCreds(_, _, _), FileBase64Creds(_, _, _),
          UnmarshalSecret(_, _, _, _),
          UsernamePasswordUnmarshalJSON(_, _, _, _),
          UnmarshalJsonSecret(_, _, _, _, _), UnmarshalVal(_, _, _, _, _)

\* (*UsernamePasswordSecret).UnmarshalJSON: the data as the struct itself,
\* or else as a JSON string that is then resolved.
UsernamePasswordUnmarshalJSON(s, data, w, aws) ==
  UnmarshalJsonSecret(UnmarshalCreds(data, ZeroCreds), s, data, w, aws)

UnmarshalJsonSecret(jsonSecret, s, data, w, aws) ==
  IF jsonSecret.err = JsonOK THEN Unmarshalled(jsonSecret.val, NilErr, {})
  ELSE UnmarshalVal(UnmarshalString(data, <<>>), s, data, w, aws)

UnmarshalVal(val, s, data, w, aws) ==
  IF val.err # JsonOK THEN Unmarshalled(s, JsonErr(val), {})
  ELSE StoreParsed(ParseUsernamePasswordSecret(val.val, w, aws), s)

\* json.Unmarshal(data, &creds) for a UsernamePasswordSecret creds: the
\* syntax is checked, then the value is handed to the type's UnmarshalJSON.
UnmarshalSecret(data, creds, w, aws) ==
  IF ~JsonParse(data).ok
  THEN Unmarshalled(creds, JsonErr(UnmarshalString(data, <<>>)), {})
  ELSE UsernamePasswordUnmarshalJSON(creds, data, w, aws)

\* case "awssecret": the stored string is decoded as JSON.
AwsCreds(w, aws, name) ==
  LET result == GetSecretValue(w, aws, name)
      attrs == {<<"secret_name", name>>}
  IN IF aws = "config_error" THEN
       Ret(ZeroCreds, XErr(SecretProviderError, attrs, "config"), {TouchConfig})
     ELSE IF ~result.ok THEN
       Ret(ZeroCreds, XErr(SecretProviderError, attrs, "aws"),
           {TouchConfig, TouchSecret(name)})
     ELSE IF ~result.out.SecretString.has THEN
       Ret(ZeroCreds, XErr(ParseSecretError, attrs, "nil"),
           {TouchConfig, TouchSecret(name)})
     ELSE CredsUnmarshalled(
            UnmarshalSecret(result.out.SecretString.val, ZeroCreds, w, aws),
            attrs, {TouchConfig, TouchSecret(name)})

\* The base64 case with the payload as an attribute of its errors.
Base64CredsAttr(payload) ==
  LET secretData == DecodeString(payload)
      attrs == {<<"credentials", payload>>}
  IN IF ~secretData.ok THEN
       Ret(ZeroCreds, XErr(ParseSecretError, attrs, JsonBase64Error), {})
     ELSE SplitCreds(SplitN2(secretData.data),
                     XErr(ParseSecretError, attrs, "nil"), {})

\* case "base64": the payload is decoded, then split.
Base64Creds(payload) ==
  LET secretData == DecodeString(payload)
  IN IF ~secretData.ok THEN
       Ret(ZeroCreds, XErr(ParseSecretError, {}, JsonBase64Error), {})
     ELSE SplitCreds(SplitN2(secretData.data),
                     XErr(ParseSecretError, {}, "nil"), {})

\* The env case reading the variables with os.LookupEnv and refusing one
\* that is not set.
EnvCredsLookup(w, payload) ==
  LET userpassenv == SplitN2(payload)
      attrs == {<<"credentials", payload>>}
  IN IF Len(userpassenv) # 2 THEN
       Ret(ZeroCreds, XErr(ParseSecretError, attrs, "nil"), {})
     ELSE IF {userpassenv[1], userpassenv[2]} \subseteq DOMAIN w.env THEN
       Ret([Username |-> w.env[userpassenv[1]],
            Password |-> w.env[userpassenv[2]]], NilErr,
           {TouchEnv(userpassenv[1]), TouchEnv(userpassenv[2])})
     ELSE Ret(ZeroCreds, XErr(ParseSecretError, attrs, "nil"),
              {TouchEnv(userpassenv[1]), TouchEnv(userpassenv[2])})

\* case "env": the payload names two variables, read with os.Getenv.
EnvCreds(w, payload) ==
  LET userpassenv == SplitN2(payload)
  IN IF Len(userpassenv) # 2 THEN
       Ret(ZeroCreds,
           XErr(ParseSecretError, {<<"credentials", payload>>}, "nil"), {})
     ELSE Ret([Username |-> Getenv(w, userpassenv[1]),
               Password |-> Getenv(w, userpassenv[2])], NilErr,
              {TouchEnv(userpassenv[1]), TouchEnv(userpassenv[2])})

\* case "env+base64": the two variables hold base64.
EnvBase64Creds(w, payload) ==
  LET userpassenv == SplitN2(payload)
      attrs == {<<"credentials", payload>>}
  IN IF Len(userpassenv) # 2 THEN
       Ret(ZeroCreds, XErr(ParseSecretError, attrs, "nil"), {})
     ELSE DecodedCreds(DecodeString(Getenv(w, userpassenv[1])),
                       DecodeString(Getenv(w, userpassenv[2])), attrs,
                       {TouchEnv(userpassenv[1])},
                       {TouchEnv(userpassenv[1]), TouchEnv(userpassenv[2])})

\* The file case choosing the format by the path's extension: JSON for
\* .json, else the raw rule on the trimmed contents.
FileCredsByExt(w, aws, path) ==
  LET contents == ReadFile(w, path)
      attrs == {<<"filename", path>>}
  IN IF ~contents.ok THEN
       Ret(ZeroCreds, XErr(ParseSecretError, attrs, "PathError"),
           {TouchFile(path)})
     ELSE IF ToLower(PathExt(path)) = <<Ch.dot, 106, 115, 111, 110>> THEN
       CredsUnmarshalled(UnmarshalSecret(contents.data, ZeroCreds, w, aws),
                         attrs, {TouchFile(path)})
     ELSE SplitCreds(SplitN2(TrimSpace(contents.data)),
                     XErr(ParseSecretError, attrs, "nil"), {TouchFile(path)})

\* case "file": the file is decoded as JSON, whatever its name.
FileCreds(w, aws, path) ==
  LET contents == ReadFile(w, path)
      attrs == {<<"filename", path>>}
  IN IF ~contents.ok THEN
       Ret(ZeroCreds, XErr(ParseSecretError, attrs, "PathError"),
           {TouchFile(path)})
     ELSE CredsUnmarshalled(UnmarshalSecret(contents.data, ZeroCreds, w, aws),
                            attrs, {TouchFile(path)})

\* case "file+base64": the file is decoded as JSON, then its two fields
\* from base64.
FileBase64Creds(w, aws, path) ==
  LET contents == ReadFile(w, path)
      attrs == {<<"filename", path>>}
  IN IF ~contents.ok THEN
       Ret(ZeroCreds, XErr(ParseSecretError, attrs, "PathError"),
           {TouchFile(path)})
     ELSE EncodedCredsUnmarshalled(
            UnmarshalSecret(contents.data, ZeroCreds, w, aws), attrs,
            {TouchFile(path)})

\* switch matches[1]; the default is the raw case.
UsernamePasswordCase(matches, w, aws) ==
  IF ~matches.ok THEN
    Ret(ZeroCreds, XErr(UnsupportedSecretProtocolError, {}, "nil"), {})
  ELSE IF matches.scheme = Scheme.awssecret THEN AwsCreds(w, aws, matches.payload)
  ELSE IF matches.scheme = Scheme.base64 THEN Base64Creds(matches.payload)
  ELSE IF matches.scheme = Scheme.env THEN EnvCreds(w, matches.payload)
  ELSE IF matches.scheme = Scheme.envbase64 THEN EnvBase64Creds(w, matches.payload)
  ELSE IF matches.scheme = Scheme.file THEN FileCreds(w, aws, matches.payload)
  ELSE IF matches.scheme = Scheme.filebase64
  THEN FileBase64Creds(w, aws, matches.payload)
  ELSE SplitCreds(SplitN2(matches.payload), XErr(ParseSecretError, {}, "nil"),
                  {})

\* ParseUsernamePasswordSecret without its test for the empty string.
ParseUsernamePasswordSecretNoEmpty(secret, w, aws) ==
  UsernamePasswordCase(
    FindStringSubmatch(UsernamePasswordSchemes, TRUE, secret), w, aws)

\* ParseUsernamePasswordSecret(ctx, secret) in world w, the secret store
\* behaving as aws says.
ParseUsernamePasswordSecret(secret, w, aws) ==
  IF secret = <<>> THEN Ret(ZeroCreds, NilErr, {})
  ELSE UsernamePasswordCase(
         FindStringSubmatch(UsernamePasswordSchemes, TRUE, secret), w, aws)

\* (*UsernamePasswordSecret).UnmarshalText
UsernamePasswordUnmarshalText(s, data, w, aws) ==
  StoreParsed(ParseUsernamePasswordSecret(data, w, aws), s)

(***************************************************************************)
(* ParseGenericSecret                                                      *)
(***************************************************************************)

\* secretData.Data = data, or the case's error when data did not decode.
DecodedData(data, attrs, touched) ==
  IF ~data.ok THEN
    Ret(ZeroSecret, XErr(ParseSecretError, attrs, JsonBase64Error), touched)
  ELSE Ret([Data |-> data.data], NilErr, touched)

\* The awssecret case reporting a secret with no string value as a failure
\* of the provider.
AwsStringProvider(w, aws, name) ==
  LET result == GetSecretValue(w, aws, name)
      attrs == {<<"secret_name", name>>}
  IN IF aws = "config_error" THEN
       Ret(ZeroSecret, XErr(SecretProviderError, attrs, "config"), {TouchConfig})
     ELSE IF ~result.ok \/ ~result.out.SecretString.has THEN
       Ret(ZeroSecret, XErr(SecretProviderError, attrs, "aws"),
           {TouchConfig, TouchSecret(name)})
     ELSE Ret([Data |-> result.out.SecretString.val], NilErr,
              {TouchConfig, TouchSecret(name)})

\* case "awssecret": the stored string, as it is.
AwsString(w, aws, name) ==
  LET result == GetSecretValue(w, aws, name)
      attrs == {<<"secret_name", name>>}
  IN IF aws = "config_error" THEN
       Ret(ZeroSecret, XErr(SecretProviderError, attrs, "config"), {TouchConfig})
     ELSE IF ~result.ok THEN
       Ret(ZeroSecret, XErr(SecretProviderError, attrs, "aws"),
           {TouchConfig, TouchSecret(name)})
     ELSE IF ~result.out.SecretString.has THEN
       Ret(ZeroSecret, XErr(ParseSecretError, attrs, "nil"),
           {TouchConfig, TouchSecret(name)})
     ELSE Ret([Data |-> result.out.SecretString.val], NilErr,
              {TouchConfig, TouchSecret(name)})

\* case "awssecret+binary": the stored binary.
AwsBinary(w, aws, name) ==
  LET result == GetSecretValue(w, aws, name)
      attrs == {<<"secret_name", name>>}
  IN IF aws = "config_error" THEN
       Ret(ZeroSecret, XErr(SecretProviderError, attrs, "config"), {TouchConfig})
     ELSE IF ~result.ok THEN
       Ret(ZeroSecret, XErr(SecretProviderError, attrs, "aws"),
           {TouchConfig, TouchSecret(name)})
     ELSE IF ~result.out.SecretBinary.has THEN
       Ret(ZeroSecret, XErr(ParseSecretError, attrs, "nil"),
           {TouchConfig, TouchSecret(name)})
     ELSE Ret([Data |-> result.out.SecretBinary.val], NilErr,
              {TouchConfig, TouchSecret(name)})

\* case "file": the contents of the file, as they are.
FileData(w, path) ==
  LET contents == ReadFile(w, path)
  IN IF ~contents.ok THEN
       Ret(ZeroSecret,
           XErr(ParseSecretError, {<<"filename", path>>}, "PathError"),
           {TouchFile(path)})
     ELSE Ret([Data |-> contents.data], NilErr, {TouchFile(path)})

\* case "file+base64": the contents of the file decoded.
FileBase64Data(w, path) ==
  LET contents == ReadFile(w, path)
      attrs == {<<"filename", path>>}
  IN IF ~contents.ok THEN
       Ret(ZeroSecret, XErr(ParseSecretError, attrs, "PathError"),
           {TouchFile(path)})
     ELSE DecodedData(DecodeString(contents.data), attrs, {TouchFile(path)})

\* switch matches[1]: base64, env and env+base64 are one statement each,
\* and the default is the raw case.
GenericCase(matches, w, aws) ==
  IF ~matches.ok THEN
    Ret(ZeroSecret, XErr(UnsupportedSecretProtocolError, {}, "nil"), {})
  ELSE IF matches.scheme = Scheme.awssecret THEN AwsString(w, aws, matches.payload)
  ELSE IF matches.scheme = Scheme.awsbinary THEN AwsBinary(w, aws, matches.payload)
  ELSE IF matches.scheme = Scheme.base64 THEN
    DecodedData(DecodeString(matches.payload), {}, {})
  ELSE IF matches.scheme = Scheme.env THEN
    Ret([Data |-> Getenv(w, matches.payload)], NilErr,
        {TouchEnv(matches.payload)})
  ELSE IF matches.scheme = Scheme.envbase64 THEN
    DecodedData(DecodeString(Getenv(w, matches.payload)),
                {<<"secret_var", matches.payload>>},
                {TouchEnv(matches.payload)})
  ELSE IF matches.scheme = Scheme.file THEN FileData(w, matches.payload)
  ELSE IF matches.scheme = Scheme.filebase64 THEN FileBase64Data(w, matches.payload)
  ELSE Ret([Data |-> matches.payload], NilErr, {})

\* ParseGenericSecret(ctx, secret) in world w, the secret store behaving as
\* aws says.
ParseGenericSecret(secret, w, aws) ==
  IF secret = <<>> THEN Ret(ZeroSecret, NilErr, {})
  ELSE GenericCase(FindStringSubmatch(GenericSchemes, FALSE, secret), w, aws)

\* (*GenericSecret).UnmarshalText
GenericUnmarshalText(s, data, w, aws) ==
  StoreParsed(ParseGenericSecret(data, w, aws), s)

GenericUnmarshalVal(val, s, data, w, aws) ==
  IF val.err # JsonOK THEN Unmarshalled(s, JsonErr(val), {})
  ELSE StoreParsed(ParseGenericSecret(val.val, w, aws), s)

GenericUnmarshalJsonSecret(jsonSecret, s, data, w, aws) ==
  IF jsonSecret.err = JsonOK THEN Unmarshalled(jsonSecret.val, NilErr, {})
  ELSE GenericUnmarshalVal(UnmarshalString(data, <<>>), s, data, w, aws)

\* (*GenericSecret).UnmarshalJSON
GenericUnmarshalJSON(s, data, w, aws) ==
  GenericUnmarshalJsonSecret(UnmarshalData(data, ZeroSecret), s, data, w, aws)

(***************************************************************************)
(* ParseCredentialSecret, the resolver UsernamePasswordSecret was renamed  *)
(* from: the schemes base64, plaintext and file, and errors with no code.  *)
(***************************************************************************)

RECURSIVE ParseCredentialSecret(_, _), CredentialCase(_, _),
          CredentialFile(_, _, _), CredentialUnmarshal(_, _),
          CredentialUnmarshalJSON(_, _, _), CredentialUnmarshalVal(_, _, _)

\* (*CredentialSecret).UnmarshalJSON, as the file case reaches it: the
\* receiver is a fresh CredentialSecret{}.
CredentialUnmarshalJSON(jsonSecret, data, w) ==
  IF jsonSecret.err = JsonOK THEN Unmarshalled(jsonSecret.val, NilErr, {})
  ELSE CredentialUnmarshalVal(UnmarshalString(data, <<>>), data, w)

CredentialUnmarshalVal(val, data, w) ==
  IF val.err # JsonOK THEN Unmarshalled(ZeroCreds, JsonErr(val), {})
  ELSE StoreParsed(ParseCredentialSecret(val.val, w), ZeroCreds)

\* json.Unmarshal(contents, &secret) and yaml.Unmarshal(contents, &secret)
\* for a CredentialSecret. (A JSON object is the YAML mapping it spells; the
\* structured files of the model are JSON.)
CredentialUnmarshal(data, w) ==
  IF ~JsonParse(data).ok
  THEN Unmarshalled(ZeroCreds, JsonErr(UnmarshalString(data, <<>>)), {})
  ELSE CredentialUnmarshalJSON(UnmarshalCreds(data, ZeroCreds), data, w)

\* return secret, nil, or the error of a file that did not parse.
CredentialUnmarshalled(u, touched) ==
  IF u.err.isErr
  THEN Ret(ZeroCreds, PlainErr(u.err.cause), touched \cup u.touched)
  ELSE Ret(u.recv, NilErr, touched \cup u.touched)

\* The file case: the switch compares path.Ext, which keeps the leading
\* '.', with "json", "yaml" and "yml".
CredentialFile(contents, path, w) ==
  IF ~contents.ok THEN Ret(ZeroCreds, PlainErr("PathError"), {TouchFile(path)})
  ELSE IF ToLower(PathExt(path)) \in {<<106, 115, 111, 110>>,
                                      <<121, 97, 109, 108>>,
                                      <<121, 109, 108>>} THEN
    CredentialUnmarshalled(CredentialUnmarshal(contents.data, w),
                           {TouchFile(path)})
  ELSE SplitCreds(SplitN2(TrimSpace(contents.data)), PlainErr("nil"),
                  {TouchFile(path)})

\* switch matches[1]
CredentialCase(matches, w) ==
  LET secretData == DecodeString(matches.payload)
  IN IF ~matches.ok THEN Ret(ZeroCreds, PlainErr("nil"), {})
     ELSE IF matches.scheme = Scheme.base64 THEN
       IF ~secretData.ok THEN Ret(ZeroCreds, PlainErr(JsonBase64Error), {})
       ELSE SplitCreds(SplitN2(secretData.data), PlainErr("nil"), {})
     ELSE IF matches.scheme = Scheme.plaintext THEN
       SplitCreds(SplitN2(matches.payload), PlainErr("nil"), {})
     ELSE CredentialFile(ReadFile(w, matches.payload), matches.payload, w)

\* ParseCredentialSecret(secret) in world w.
ParseCredentialSecret(secret, w) ==
  IF secret = <<>> THEN Ret(ZeroCreds, NilErr, {})
  ELSE CredentialCase(FindStringSubmatch(CredentialSchemes, FALSE, secret), w)

(***************************************************************************)
(* The callers: the fixtures of TestUsernamePasswordSecret and             *)
(* TestGenericSecret, and one call of an entry point                       *)
(***************************************************************************)

\* The longest secret (username, password, data, raw payload) drawn.
MaxLen == 2

\* The bytes secrets are drawn from: a letter, the separator, a line feed.
Alphabet == {Ch.a, Ch.colon, Ch.lf}

Strings == StrUpTo(Alphabet, MaxLen)

\* The names the tests give to variables, files and stored secrets.
Name ==
  [username |-> <<117, 115, 101, 114, 110, 97, 109, 101>>,
   password |-> <<112, 97, 115, 115, 119, 111, 114, 100>>,
   username_b64 |-> <<117, 115, 101, 114, 110, 97, 109, 101, 95, 98, 54, 52>>,
   password_b64 |-> <<112, 97, 115, 115, 119, 111, 114, 100, 95, 98, 54, 52>>,
   secret |-> <<115, 101, 99, 114, 101, 116>>,
   secret_b64 |-> <<115, 101, 99, 114, 101, 116, 95, 98, 54, 52>>,
   file |-> <<46, 47, 102>>,
   file_b64 |-> <<46, 47, 102, 95, 98, 54, 52>>,
   file_json |-> <<46, 47, 102, 46, 106, 115, 111, 110>>,
   file_txt |-> <<46, 47, 102, 46, 116, 120, 116>>,
   nofile |-> <<46, 47, 110, 111, 102, 105, 108, 101>>,
   aws |-> <<116, 121, 112, 101, 115, 95, 116, 101, 115, 116, 95, 102>>,
   aws_bin |-> <<116, 121, 112, 101, 115, 95, 116, 101, 115, 116, 95, 98,
                 105, 110, 95, 102>>,
   nosecret |-> <<110, 111, 115, 101, 99, 114, 101, 116>>,
   X |-> <<88>>,
   Y |-> <<89>>]

\* name1 ":" name2
Pair(n1, n2) == n1 \o <<Ch.colon>> \o n2

\* scheme "://" payload
URL(scheme, payload) == scheme \o SchemeSep \o payload

\* A test and its secret: which test function runs, with which username and
\* password or secretData.
NoTest == [name |-> "none", username |-> <<>>, password |-> <<>>,
           secretData |-> <<>>]

CredsTest(u, p) ==
  [name |-> "TestUsernamePasswordSecret", username |-> u, password |-> p,
   secretData |-> <<>>]

DataTest(d) ==
  [name |-> "TestGenericSecret", username |-> <<>>, password |-> <<>>,
   secretData |-> d]

\* The world TestUsernamePasswordSecret sets up (os.Setenv, os.WriteFile,
\* client.CreateSecret), with two more files for the same credentials, one
\* named *.json and a text file holding username:password and a line feed,
\* and the same document stored once more as a binary value.
CredsWorld(u, p) ==
  LET data == MarshalTestCreds(u, p)
      b64 == MarshalTestCreds(EncodeToString(u), EncodeToString(p))
  IN World(
       (Name.username :> u) @@ (Name.password :> p)
         @@ (Name.username_b64 :> EncodeToString(u))
         @@ (Name.password_b64 :> EncodeToString(p)),
       (Name.file :> data) @@ (Name.file_b64 :> b64)
         @@ (Name.file_json :> data)
         @@ (Name.file_txt :> Pair(u, p) \o <<Ch.lf>>),
       (Name.aws :> StoredString(data)) @@ (Name.aws_bin :> StoredBinary(data)))

\* The world TestGenericSecret sets up.
DataWorld(d) ==
  World(
    (Name.secret :> d) @@ (Name.secret_b64 :> EncodeToString(d)),
    (Name.file :> d) @@ (Name.file_b64 :> EncodeToString(d)),
    (Name.aws :> StoredString(d)) @@ (Name.aws_bin :> StoredBinary(d)))

\* No variable set, no file, nothing stored.
EmptyWorld == World(<<>>, <<>>, <<>>)

WorldOf(t) ==
  IF t.name = "TestUsernamePasswordSecret" THEN CredsWorld(t.username, t.password)
  ELSE IF t.name = "TestGenericSecret" THEN DataWorld(t.secretData)
  ELSE EmptyWorld

\* The URLs TestUsernamePasswordSecret resolves: one per scheme, all for the
\* same username and password.
CredsURLs(u, p) ==
  {URL(Scheme.raw, Pair(u, p)),
   URL(Scheme.base64, EncodeToString(Pair(u, p))),
   URL(Scheme.env, Pair(Name.username, Name.password)),
   URL(Scheme.envbase64, Pair(Name.username_b64, Name.password_b64)),
   URL(Scheme.file, Name.file),
   URL(Scheme.filebase64, Name.file_b64),
   URL(Scheme.awssecret, Name.aws)}

\* The URLs TestGenericSecret resolves, all for the same secretData.
DataURLs(d) ==
  {URL(Scheme.raw, d),
   URL(Scheme.base64, EncodeToString(d)),
   URL(Scheme.env, Name.secret),
   URL(Scheme.envbase64, Name.secret_b64),
   URL(Scheme.file, Name.file),
   URL(Scheme.filebase64, Name.file_b64),
   URL(Scheme.awssecret, Name.aws),
   URL(Scheme.awsbinary, Name.aws_bin)}

VARIABLES
  test,   \* the test that runs and its secret
  world,  \* environment, files and secret store, as the test set them up
  ups,    \* a UsernamePasswordSecret the caller holds (Unmarshal's receiver)
  gen,    \* a GenericSecret the caller holds (Unmarshal's receiver)
  pc,     \* "idle" before the caller's call, "returned" after it
  ret     \* the call made and what it returned

vars == <<test, world, ups, gen, pc, ret>>

\* A receiver that already holds a value.
SomeCreds == [Username |-> <<Ch.u>>, Password |-> <<Ch.z>>]

SomeSecret == [Data |-> <<Ch.z>>]

\* recv is what the receiver held before the call, val what was returned
\* (for Unmarshal: what the receiver holds after it).
NoCall == [op |-> "none", input |-> <<>>, aws |-> "ok", recv |-> ZeroCreds,
           val |-> ZeroCreds, err |-> NilErr, touched |-> {}]

InitWith(tests) ==
  /\ test \in tests
  /\ world = WorldOf(test)
  /\ \E held \in BOOLEAN :
       /\ ups = IF held THEN SomeCreds ELSE ZeroCreds
       /\ gen = IF held THEN SomeSecret ELSE ZeroSecret
  /\ pc = "idle"
  /\ ret = NoCall

\* A Parse function returns r.
Returns(op, input, aws, zero, r) ==
  /\ pc' = "returned"
  /\ ret' = [op |-> op, input |-> input, aws |-> aws, recv |-> zero,
             val |-> r.val, err |-> r.err, touched |-> r.touched]
  /\ UNCHANGED <<test, world, ups, gen>>

\* An Unmarshal method returns r, called on the receiver that held s.
Unmarshals(op, input, aws, s, r) ==
  /\ pc' = "returned"
  /\ ret' = [op |-> op, input |-> input, aws |-> aws, recv |-> s,
             val |-> r.recv, err |-> r.err, touched |-> r.touched]
  /\ UNCHANGED <<test, world>>

UnmarshalsCreds(op, input, aws, r) ==
  /\ Unmarshals(op, input, aws, ups, r)
  /\ ups' = r.recv
  /\ UNCHANGED gen

UnmarshalsData(op, input, aws, r) ==
  /\ Unmarshals(op, input, aws, gen, r)
  /\ gen' = r.recv
  /\ UNCHANGED ups

\* The store's behaviour is drawn for the calls that name it.
NamesStore(input) ==
  \E i \in 1..2 : HasPrefix(From(input, i), Scheme.awssecret)

StoreOutcomes(input) == IF NamesStore(input) THEN AwsOutcomes ELSE {"ok"}

CallParseUsernamePasswordSecret(inputs) ==
  /\ pc = "idle"
  /\ \E secret \in inputs : \E aws \in StoreOutcomes(secret) :
       Returns("ParseUsernamePasswordSecret", secret, aws, ZeroCreds,
               ParseUsernamePasswordSecret(secret, world, aws))

CallParseGenericSecret(inputs) ==
  /\ pc = "idle"
  /\ \E secret \in inputs : \E aws \in StoreOutcomes(secret) :
       Returns("ParseGenericSecret", secret, aws, ZeroSecret,
               ParseGenericSecret(secret, world, aws))

CallParseCredentialSecret(inputs) ==
  /\ pc = "idle"
  /\ \E secret \in inputs :
       Returns("ParseCredentialSecret", secret, "ok", ZeroCreds,
               ParseCredentialSecret(secret, world))

CallUsernamePasswordUnmarshalText(inputs) ==
  /\ pc = "idle"
  /\ \E data \in inputs : \E aws \in StoreOutcomes(data) :
       UnmarshalsCreds("UsernamePasswordSecret.UnmarshalText", data, aws,
                       UsernamePasswordUnmarshalText(ups, data, world, aws))

CallUsernamePasswordUnmarshalJSON(inputs) ==
  /\ pc = "idle"
  /\ \E data \in inputs : \E aws \in StoreOutcomes(data) :
       UnmarshalsCreds("UsernamePasswordSecret.UnmarshalJSON", data, aws,
                       UsernamePasswordUnmarshalJSON(ups, data, world, aws))

CallGenericUnmarshalText(inputs) ==
  /\ pc = "idle"
  /\ \E data \in inputs : \E aws \in StoreOutcomes(data) :
       UnmarshalsData("GenericSecret.UnmarshalText", data, aws,
                      GenericUnmarshalText(gen, data, world, aws))

CallGenericUnmarshalJSON(inputs) ==
  /\ pc = "idle"
  /\ \E data \in inputs : \E aws \in StoreOutcomes(data) :
       UnmarshalsData("GenericSecret.UnmarshalJSON", data, aws,
                      GenericUnmarshalJSON(gen, data, world, aws))

(***************************************************************************)
(* Spec: any input, against an empty world and one world of each test      *)
(***************************************************************************)

Payloads ==
  LET Base64Strings == {EncodeToString(s) : s \in Strings}
      \* Texts that are no base64: an encoding cut short, and one whose first
      \* character is outside the alphabet.
      CorruptBase64 ==
        UNION {{SubSeq(e, 1, Len(e) - 1), <<Ch.bang>> \o Tail(e)}
               : e \in Base64Strings \ {<<>>}}
      \* The names a payload may refer to.
      Names ==
        {Pair(Name.username, Name.password),
         Pair(Name.username_b64, Name.password_b64),
         Pair(Name.X, Name.Y), Name.X, Name.secret, Name.secret_b64,
         Name.file, Name.file_b64, Name.file_json, Name.file_txt, Name.nofile,
         Name.aws, Name.aws_bin, Name.nosecret}
  IN
    Strings \cup Base64Strings \cup CorruptBase64 \cup Names

Inputs ==
  LET \* What may stand before "://": the schemes, and near misses.
      Heads ==
        {Scheme.awssecret, Scheme.awsbinary, Scheme.base64, Scheme.env,
         Scheme.envbase64, Scheme.file, Scheme.filebase64, Scheme.raw,
         Scheme.plaintext,
         <<82, 65, 87>>,         \* RAW
         <<120, 114, 97, 119>>,  \* xraw
         <<102, 116, 112>>,      \* ftp
         <<>>}
      \* What may stand where "://" should.
      NearSeps ==
        {<<>>, <<Ch.colon>>, <<Ch.colon, Ch.slash>>, <<Ch.slash, Ch.slash>>}
  IN
    {URL(h, p) : h \in Heads, p \in Payloads}
      \cup {h \o sep \o <<Ch.a, Ch.colon, Ch.a>> : h \in Heads, sep \in NearSeps}
      \cup Payloads

JsonInputs ==
  LET \* JSON documents that are no string: null, {}, 5, "{", and objects with
      \* the fields of the two structs, well and badly typed.
      JsonDocs ==
        {<<110, 117, 108, 108>>, <<Ch.lbrace, Ch.rbrace>>, <<53>>, <<Ch.lbrace>>,
         MarshalTestCreds(<<Ch.a>>, <<Ch.b>>),
         <<123, 34, 117, 115, 101, 114, 110, 97, 109, 101, 34, 58, 34, 97, 34,
           44, 34, 112, 97, 115, 115, 119, 111, 114, 100, 34, 58, 53, 125>>,
         <<123, 34, 100, 97, 116, 97, 34, 58, 34, 89, 81, 61, 61, 34, 125>>,
         <<123, 34, 100, 97, 116, 97, 34, 58, 34, 33, 34, 125>>}
  IN
    {MarshalString(i) : i \in Inputs} \cup JsonDocs

SpecTests ==
  {NoTest, CredsTest(<<Ch.a>>, <<Ch.colon, Ch.a>>), DataTest(<<Ch.lf, Ch.a>>)}

Init == InitWith(SpecTests)

Next ==
  \/ CallParseUsernamePasswordSecret(Inputs)
  \/ CallParseGenericSecret(Inputs)
  \/ CallParseCredentialSecret(Inputs)
  \/ CallUsernamePasswordUnmarshalText(Inputs)
  \/ CallUsernamePasswordUnmarshalJSON(JsonInputs)
  \/ CallGenericUnmarshalText(Inputs)
  \/ CallGenericUnmarshalJSON(JsonInputs)

Spec == Init /\ [][Next]_vars

(***************************************************************************)
(* FixtureSpec: every secret of the bound as a test's fixture, resolved    *)
(* through the URLs the test builds for it                                 *)
(***************************************************************************)

AllTests ==
  LET \* Usernames hold no ':'.
      Usernames == {u \in Strings : ~Contains(u, Ch.colon)}
  IN
    {CredsTest(u, p) : u \in Usernames, p \in Strings}
      \cup {DataTest(d) : d \in Strings}

FixtureInputs(t) ==
  LET \* The URLs of the old resolver for the same credentials.
      CredentialURLs(u, p) ==
        {URL(Scheme.plaintext, Pair(u, p)),
         URL(Scheme.base64, EncodeToString(Pair(u, p)))}
      \* URLs for what the test's world holds besides: the two named files, a
      \* file and a stored name that do not exist, and the stored values asked
      \* for in the other shape.
      OtherURLs ==
        {URL(Scheme.file, Name.file_json), URL(Scheme.file, Name.file_txt),
         URL(Scheme.file, Name.nofile), URL(Scheme.awssecret, Name.nosecret),
         URL(Scheme.awssecret, Name.aws_bin), URL(Scheme.awsbinary, Name.aws)}
  IN
    IF t.name = "TestUsernamePasswordSecret"
    THEN CredsURLs(t.username, t.password)
           \cup CredentialURLs(t.username, t.password) \cup OtherURLs
    ELSE DataURLs(t.secretData) \cup OtherURLs

FixtureJsonInputs(t) == {MarshalString(i) : i \in FixtureInputs(t)}

FixtureInit == InitWith(AllTests)

FixtureNext ==
  \/ CallParseUsernamePasswordSecret(FixtureInputs(test))
  \/ CallParseGenericSecret(FixtureInputs(test))
  \/ CallParseCredentialSecret(FixtureInputs(test))
  \/ CallUsernamePasswordUnmarshalText(FixtureInputs(test))
  \/ CallUsernamePasswordUnmarshalJSON(FixtureJsonInputs(test))
  \/ CallGenericUnmarshalText(FixtureInputs(test))
  \/ CallGenericUnmarshalJSON(FixtureJsonInputs(test))

FixtureSpec == FixtureInit /\ [][FixtureNext]_vars

(***************************************************************************)
(* Properties                                                              *)
(***************************************************************************)

\* The call op has returned.
Returned(op) == pc = "returned" /\ ret.op = op

\* The payload of an input that begins scheme "://".
PayloadOf(input, scheme) == From(input, Len(scheme) + Len(SchemeSep) + 1)

\* "" as a JSON string.
EmptyJsonString == <<Ch.quote, Ch.quote>>

\* C1: resolving the empty string gives the zero value and no error at
\* every entry point: the two Parse functions return it, and UnmarshalText
\* of the empty text and UnmarshalJSON of the JSON string "" store it in the
\* receiver, whatever the receiver held.
C1_EmptyIsZero ==
  /\ Returned("ParseUsernamePasswordSecret") /\ ret.input = <<>>
       => ret.err = NilErr /\ ret.val = ZeroCreds
  /\ Returned("ParseGenericSecret") /\ ret.input = <<>>
       => ret.err = NilErr /\ ret.val = ZeroSecret
  /\ Returned("UsernamePasswordSecret.UnmarshalText") /\ ret.input = <<>>
       => ret.err = NilErr /\ ups = ZeroCreds
  /\ Returned("UsernamePasswordSecret.UnmarshalJSON")
       /\ ret.input = EmptyJsonString
       => ret.err = NilErr /\ ups = ZeroCreds
  /\ Returned("GenericSecret.UnmarshalText") /\ ret.input = <<>>
       => ret.err = NilErr /\ gen = ZeroSecret
  /\ Returned("GenericSecret.UnmarshalJSON") /\ ret.input = EmptyJsonString
       => ret.err = NilErr /\ gen = ZeroSecret

\* UnmarshalJSON of "" has emptied a receiver that held credentials.
C1_Witness ==
  /\ Returned("UsernamePasswordSecret.UnmarshalJSON")
  /\ ret.input = EmptyJsonString
  /\ ret.recv = SomeCreds
  /\ ups = ZeroCreds

\* The positions at which "://" stands in s.
SepAt(s) == {i \in 1..Len(s) : HasPrefix(From(s, i), SchemeSep)}

\* Whether the text before the first "://" of s is one of schemes.
HasSchemeOf(s, schemes) ==
  /\ SepAt(s) # {}
  /\ \E k \in DOMAIN schemes : SubSeq(s, 1, Min(SepAt(s)) - 1) = schemes[k]

\* C2: a non-empty input whose text before "://" is not exactly one of the
\* resolver's schemes (a scheme in another case, no "://" at all,
\* awssecret+binary given to the credential resolver) fails with
\* UnsupportedSecretProtocolError, and nothing outside was touched: no
\* variable, no file, no store; a receiver keeps what it held.
C2_UnsupportedScheme ==
  /\ (Returned("ParseUsernamePasswordSecret")
        \/ Returned("UsernamePasswordSecret.UnmarshalText"))
       /\ ret.input # <<>> /\ ~HasSchemeOf(ret.input, UsernamePasswordSchemes)
       => /\ ret.err.code = UnsupportedSecretProtocolError
          /\ ret.touched = {}
          /\ ret.val = ret.recv
  /\ (Returned("ParseGenericSecret") \/ Returned("GenericSecret.UnmarshalText"))
       /\ ret.input # <<>> /\ ~HasSchemeOf(ret.input, GenericSchemes)
       => /\ ret.err.code = UnsupportedSecretProtocolError
          /\ ret.touched = {}
          /\ ret.val = ret.recv

\* RAW://a: was refused by the credential resolver in a world that holds
\* variables, files and a stored secret.
C2_Witness ==
  /\ Returned("ParseUsernamePasswordSecret")
  /\ ret.input = URL(<<82, 65, 87>>, <<Ch.a, Ch.colon>>)
  /\ test.name = "TestUsernamePasswordSecret"
  /\ ret.err.code = UnsupportedSecretProtocolError

\* awssecret+binary was refused by the credential resolver.
C2_WitnessBinary ==
  /\ Returned("ParseUsernamePasswordSecret")
  /\ ret.input = URL(Scheme.awsbinary, Name.aws_bin)
  /\ ret.err.code = UnsupportedSecretProtocolError

\* C3: for every username u without ':' and every password p the
\* credential resolver returns {u, p} with no error for each of the seven
\* URLs the test builds for (u, p): raw, base64, env, env+base64, file,
\* file+base64 and awssecret (the store answering).
C3_EncodingsAgree ==
  Returned("ParseUsernamePasswordSecret")
    /\ test.name = "TestUsernamePasswordSecret"
    /\ ret.input \in CredsURLs(test.username, test.password)
    /\ ret.aws = "ok"
    => /\ ret.err = NilErr
       /\ ret.val = [Username |-> test.username, Password |-> test.password]

\* C4: for every byte string d the generic resolver returns Data = d with
\* no error for each of the eight URLs the test builds for d: raw, base64,
\* env, env+base64, file, file+base64, awssecret and awssecret+binary (the
\* store answering).
C4_DataUnchanged ==
  Returned("ParseGenericSecret")
    /\ test.name = "TestGenericSecret"
    /\ ret.input \in DataURLs(test.secretData)
    /\ ret.aws = "ok"
    => /\ ret.err = NilErr
       /\ ret.val = [Data |-> test.secretData]

\* The text of s before its first ':' and the text after it.
BeforeColon(s) == SubSeq(s, 1, Min(IndicesOf(s, Ch.colon)) - 1)

AfterColon(s) == From(s, Min(IndicesOf(s, Ch.colon)) + 1)

\* C5: raw://payload splits the payload once, at its first ':': Username is
\* the text before it and Password all the text after it; a non-empty
\* payload with no ':' fails with ParseSecretError.
C5_RawSplitsOnce ==
  Returned("ParseUsernamePasswordSecret")
    /\ HasPrefix(ret.input, URL(Scheme.raw, <<>>))
    /\ PayloadOf(ret.input, Scheme.raw) # <<>>
    => IF Contains(PayloadOf(ret.input, Scheme.raw), Ch.colon)
       THEN /\ ret.err = NilErr
            /\ ret.val.Username = BeforeColon(PayloadOf(ret.input, Scheme.raw))
            /\ ret.val.Password = AfterColon(PayloadOf(ret.input, Scheme.raw))
       ELSE ret.err.code = ParseSecretError

\* C6: base64://payload with a (non-empty) payload that is no standard
\* base64 fails with ParseSecretError in both resolvers, and so does, in the
\* credential resolver, a payload that decodes to a text with no ':'.
C6_Base64Errors ==
  /\ (Returned("ParseUsernamePasswordSecret") \/ Returned("ParseGenericSecret"))
       /\ HasPrefix(ret.input, URL(Scheme.base64, <<>>))
       /\ PayloadOf(ret.input, Scheme.base64) # <<>>
       /\ ~DecodeString(PayloadOf(ret.input, Scheme.base64)).ok
       => ret.err.code = ParseSecretError
  /\ Returned("ParseUsernamePasswordSecret")
       /\ HasPrefix(ret.input, URL(Scheme.base64, <<>>))
       /\ PayloadOf(ret.input, Scheme.base64) # <<>>
       /\ DecodeString(PayloadOf(ret.input, Scheme.base64)).ok
       /\ ~Contains(DecodeString(PayloadOf(ret.input, Scheme.base64)).data,
                    Ch.colon)
       => ret.err.code = ParseSecretError

\* Whether input is scheme "://" A ":" B with neither variable set in w
\* (A holds no ':'; the names hold no line feed).
NamesUnsetPair(input, scheme, w) ==
  /\ HasPrefix(input, URL(scheme, <<>>))
  /\ Contains(PayloadOf(input, scheme), Ch.colon)
  /\ ~Contains(PayloadOf(input, scheme), Ch.lf)
  /\ BeforeColon(PayloadOf(input, scheme)) \notin DOMAIN w.env
  /\ AfterColon(PayloadOf(input, scheme)) \notin DOMAIN w.env

\* Whether input is scheme "://" V with V not set in w.
NamesUnset(input, scheme, w) ==
  /\ HasPrefix(input, URL(scheme, <<>>))
  /\ ~Contains(PayloadOf(input, scheme), Ch.lf)
  /\ PayloadOf(input, scheme) \notin DOMAIN w.env

\* C7: a variable that is not set resolves to the empty string and is no
\* error (variable names hold no line feed): env://A:B and env+base64://A:B
\* with A and B not set give {"", ""} and no error, env://V and
\* env+base64://V with V not set give empty Data and no error.
C7_MissingVariableIsEmpty ==
  /\ Returned("ParseUsernamePasswordSecret")
       /\ (NamesUnsetPair(ret.input, Scheme.env, world)
             \/ NamesUnsetPair(ret.input, Scheme.envbase64, world))
       => ret.err = NilErr /\ ret.val = ZeroCreds
  /\ Returned("ParseGenericSecret")
       /\ (NamesUnset(ret.input, Scheme.env, world)
             \/ NamesUnset(ret.input, Scheme.envbase64, world))
       => ret.err = NilErr /\ ret.val = ZeroSecret

\* env://X:Y was resolved to {"", ""} in a world where other variables are
\* set and X and Y are not.
C7_Witness ==
  /\ Returned("ParseUsernamePasswordSecret")
  /\ ret.input = URL(Scheme.env, Pair(Name.X, Name.Y))
  /\ Name.username \in DOMAIN world.env
  /\ ret.touched = {TouchEnv(Name.X), TouchEnv(Name.Y)}
  /\ ret.val = ZeroCreds
  /\ ret.err = NilErr

\* The credentials of the test that runs.
TestCreds == [Username |-> test.username, Password |-> test.password]

\* C8: file://F.json, F.json holding the JSON object with the keys username
\* and password, gives {u, p} in the credential resolver, the earlier
\* ParseCredentialSecret included: the file is decoded as structured data.
C8_JsonFileIsStructured ==
  (Returned("ParseUsernamePasswordSecret") \/ Returned("ParseCredentialSecret"))
    /\ test.name = "TestUsernamePasswordSecret"
    /\ ret.input = URL(Scheme.file, Name.file_json)
    => ret.err = NilErr /\ ret.val = TestCreds

\* Whether s neither begins nor ends with white space.
NoSpaceAtEnds(s) ==
  s # <<>> => s[1] \notin WhiteSpace /\ s[Len(s)] \notin WhiteSpace

\* C9 as claimed: for file://F, F's extension none of .json, .yaml, .yml,
\* the credential resolver (the earlier ParseCredentialSecret included)
\* applies the raw rule to the trimmed contents: "u:p" and a line feed
\* gives {u, p}, and contents with no ':' fail with ParseSecretError.
C9_RawRuleOnOtherFiles ==
  /\ (Returned("ParseUsernamePasswordSecret")
        \/ Returned("ParseCredentialSecret"))
       /\ test.name = "TestUsernamePasswordSecret"
       /\ ret.input = URL(Scheme.file, Name.file_txt)
       /\ NoSpaceAtEnds(Pair(test.username, test.password))
       => ret.err = NilErr /\ ret.val = TestCreds
  /\ (Returned("ParseUsernamePasswordSecret")
        \/ Returned("ParseCredentialSecret"))
       /\ test.name = "TestGenericSecret"
       /\ ret.input = URL(Scheme.file, Name.file)
       /\ ~Contains(test.secretData, Ch.colon)
       => ret.err.code = ParseSecretError

\* C9, amended: for file://F, F's extension none of .json, .yaml, .yml,
\* ParseUsernamePasswordSecret decodes the file as JSON like any other: a
\* file holding "u:p" and a line feed, which is no JSON document, fails with
\* ParseSecretError and gives no credentials. Only the earlier
\* ParseCredentialSecret applies the raw rule to the trimmed contents:
\* "u:p" and a line feed (u:p with no white space at its ends) gives {u, p},
\* and contents with no ':' fail with an error that has no code.
C9_JsonWhateverTheExtension ==
  /\ Returned("ParseUsernamePasswordSecret")
       /\ test.name = "TestUsernamePasswordSecret"
       /\ ret.input = URL(Scheme.file, Name.file_txt)
       /\ ~JsonParse(world.files[Name.file_txt]).ok
       => ret.err.code = ParseSecretError /\ ret.val = ZeroCreds
  /\ Returned("ParseCredentialSecret")
       /\ test.name = "TestUsernamePasswordSecret"
       /\ ret.input = URL(Scheme.file, Name.file_txt)
       /\ NoSpaceAtEnds(Pair(test.username, test.password))
       => ret.err = NilErr /\ ret.val = TestCreds
  /\ Returned("ParseCredentialSecret")
       /\ test.name = "TestGenericSecret"
       /\ ret.input = URL(Scheme.file, Name.file)
       /\ ~Contains(test.secretData, Ch.colon)
       => ret.err.isErr /\ ret.err.code = 0 /\ ret.val = ZeroCreds

\* ParseUsernamePasswordSecret has refused the text file that holds "a:a"
\* and a line feed.
C9_Witness ==
  /\ Returned("ParseUsernamePasswordSecret")
  /\ ret.input = URL(Scheme.file, Name.file_txt)
  /\ test.name = "TestUsernamePasswordSecret"
  /\ world.files[Name.file_txt] = <<Ch.a, Ch.colon, Ch.a, Ch.lf>>
  /\ ret.err.code = ParseSecretError
  /\ ret.touched = {TouchFile(Name.file_txt)}

\* The call asked the store for a secret under the scheme: the credential
\* resolver knows awssecret only.
AsksStore(scheme) ==
  /\ HasPrefix(ret.input, URL(scheme, <<>>))
  /\ \/ Returned("ParseGenericSecret")
     \/ Returned("ParseUsernamePasswordSecret") /\ scheme = Scheme.awssecret

\* The store answered the call, and holds a value under the name asked for.
StoreAnswered(scheme) ==
  /\ ret.aws = "ok"
  /\ PayloadOf(ret.input, scheme) \in DOMAIN world.secrets

\* The call met a stored value of the wrong shape: awssecret a secret with
\* no string value, awssecret+binary one with no binary value.
WrongShape ==
  \/ /\ AsksStore(Scheme.awssecret) /\ StoreAnswered(Scheme.awssecret)
     /\ ~world.secrets[PayloadOf(ret.input, Scheme.awssecret)].SecretString.has
  \/ /\ AsksStore(Scheme.awsbinary) /\ StoreAnswered(Scheme.awsbinary)
     /\ ~world.secrets[PayloadOf(ret.input, Scheme.awsbinary)].SecretBinary.has

\* The call failed at the store: the configuration did not load, or the
\* fetch failed or found nothing under the name.
StoreFailed ==
  \E scheme \in {Scheme.awssecret, Scheme.awsbinary} :
    AsksStore(scheme) /\ ~StoreAnswered(scheme)

\* C10 as claimed: every failure attributable to the store is a
\* SecretProviderError: a failed configuration load, a failed fetch, and a
\* stored value of the wrong shape.
C10_AllProviderErrors ==
  StoreFailed \/ WrongShape => ret.err.code = SecretProviderError

\* C10, amended: a failed configuration load and a failed fetch (a name not
\* stored included) are a SecretProviderError; a stored value of the wrong
\* shape, awssecret on a secret with no string value and awssecret+binary
\* on one with no binary value, is a ParseSecretError.
C10_WrongShapeIsParseError ==
  /\ StoreFailed => ret.err.code = SecretProviderError
  /\ WrongShape => ret.err.code = ParseSecretError

\* awssecret+binary has met a secret stored as a string.
C10_Witness ==
  /\ Returned("ParseGenericSecret")
  /\ ret.input = URL(Scheme.awsbinary, Name.aws)
  /\ WrongShape
  /\ ret.err.code = ParseSecretError
  /\ ret.touched = {TouchConfig, TouchSecret(Name.aws)}

(***************************************************************************)
(* The masked forms of the two secrets                                     *)
(***************************************************************************)

\* fmt's %c of a byte: the byte taken as a code point and written in UTF-8.
FormatC(b) == IF b < 128 THEN <<b>> ELSE <<192 + (b \div 64), 128 + (b % 64)>>

Stars(n) == [i \in 1..n |-> Ch.star]

UsernamePasswordString(s) ==
  IF s.Username # <<>>
  THEN FormatC(s.Username[1]) \o Stars(11) \o <<Ch.colon>> \o Stars(12)
  ELSE <<Ch.colon>> \o Stars(12)

UsernamePasswordMarshalText(s) == UsernamePasswordString(s)

\* MarshalJSON that masks the username only.
UsernamePasswordMarshalJSONPassword(s) ==
  LET Username == IF s.Username # <<>>
                  THEN FormatC(s.Username[1]) \o Stars(11) ELSE s.Username
  IN <<Ch.lbrace>> \o MarshalString(KeyPassword) \o <<Ch.colon>>
       \o MarshalString(s.Password) \o <<Ch.comma>>
       \o MarshalString(KeyUsername) \o <<Ch.colon>>
       \o MarshalString(Username) \o <<Ch.rbrace>>

\* json.Marshal writes the struct's fields in the order of their declaration:
\* Password, then Username.
UsernamePasswordMarshalJSON(s) ==
  LET Username == IF s.Username # <<>>
                  THEN FormatC(s.Username[1]) \o Stars(11) ELSE s.Username
      Password == Stars(12)
  IN <<Ch.lbrace>> \o MarshalString(KeyPassword) \o <<Ch.colon>>
       \o MarshalString(Password) \o <<Ch.comma>>
       \o MarshalString(KeyUsername) \o <<Ch.colon>>
       \o MarshalString(Username) \o <<Ch.rbrace>>

GenericString(s) == Stars(16)

GenericMarshalText(s) == GenericString(s)

GenericMarshalJSON(s) == MarshalString(Stars(16))

(***************************************************************************)
(* MaskSpec: a caller holds a secret, asks for one of its masked forms,    *)
(* and may resolve the text it got as a raw:// secret                      *)
(***************************************************************************)

\* The secrets a caller may hold: usernames that are empty, ASCII ('a', 'b',
\* "ab", '<', '"'), that start with a two-byte character (U+00E9, U+00E3),
\* and fields that read like a mask.
MaskSecrets ==
  LET Usernames ==
        {<<>>, <<Ch.a>>, <<Ch.b>>, <<Ch.a, Ch.b>>, <<60>>, <<Ch.quote>>,
         <<195, 169>>, <<195, 163>>, <<Ch.a>> \o Stars(11)}
      Passwords == {<<>>, <<Ch.a>>, <<Ch.b>>, Stars(12)}
  IN {[Username |-> u, Password |-> p] : u \in Usernames, p \in Passwords}

MaskData == {[Data |-> d] : d \in {<<>>, <<Ch.a>>, Stars(16)}}

MaskInit ==
  /\ test = NoTest
  /\ world = EmptyWorld
  /\ ups \in MaskSecrets
  /\ gen \in MaskData
  /\ pc = "idle"
  /\ ret = NoCall

\* A method of the secret s returns text.
Masks(op, s, text) ==
  /\ pc' = "returned"
  /\ ret' = [op |-> op, input |-> <<>>, aws |-> "ok", recv |-> s,
             val |-> text, err |-> NilErr, touched |-> {}]
  /\ UNCHANGED <<test, world, ups, gen>>

\* The last two steps: the caller resolves "raw://" followed by the text
\* String gave.
MaskNext ==
  \/ /\ pc = "idle"
     /\ Masks("UsernamePasswordSecret.String", ups, UsernamePasswordString(ups))
  \/ /\ pc = "idle"
     /\ Masks("UsernamePasswordSecret.MarshalText", ups,
              UsernamePasswordMarshalText(ups))
  \/ /\ pc = "idle"
     /\ Masks("UsernamePasswordSecret.MarshalJSON", ups,
              UsernamePasswordMarshalJSON(ups))
  \/ /\ pc = "idle"
     /\ Masks("GenericSecret.String", gen, GenericString(gen))
  \/ /\ pc = "idle"
     /\ Masks("GenericSecret.MarshalText", gen, GenericMarshalText(gen))
  \/ /\ pc = "idle"
     /\ Masks("GenericSecret.MarshalJSON", gen, GenericMarshalJSON(gen))
  \/ /\ pc = "returned"
     /\ ret.op = "UsernamePasswordSecret.String"
     /\ Returns("ParseUsernamePasswordSecret", URL(Scheme.raw, ret.val), "ok",
                ret.recv,
                ParseUsernamePasswordSecret(URL(Scheme.raw, ret.val), world,
                                            "ok"))
  \/ /\ pc = "returned"
     /\ ret.op = "GenericSecret.String"
     /\ Returns("ParseGenericSecret", URL(Scheme.raw, ret.val), "ok", ret.recv,
                ParseGenericSecret(URL(Scheme.raw, ret.val), world, "ok"))

MaskSpec == MaskInit /\ [][MaskNext]_vars

\* The first character of a text: the two bytes of a two-byte UTF-8 sequence,
\* one byte otherwise.
FirstChar(s) ==
  IF Len(s) >= 2 /\ s[1] \in 194..223 /\ s[2] \in 128..191
  THEN <<s[1], s[2]>> ELSE <<s[1]>>

\* C11: the text form of a UsernamePasswordSecret (String, MarshalText) is the
\* first character of the username, eleven '*', ':' and twelve '*'; with an
\* empty username it is ':' and twelve '*'.
C11_TextMask ==
  (pc = "returned" /\ ret.op \in {"UsernamePasswordSecret.String",
                                  "UsernamePasswordSecret.MarshalText"})
    => ret.val = (IF ret.recv.Username = <<>> THEN <<>>
                  ELSE FirstChar(ret.recv.Username) \o Stars(11))
                   \o <<Ch.colon>> \o Stars(12)

\* The masked form the method op gives for the secret s.
MaskedForm(op, s) ==
  CASE op = "UsernamePasswordSecret.String" -> UsernamePasswordString(s)
    [] op = "UsernamePasswordSecret.MarshalText" -> UsernamePasswordMarshalText(s)
    [] op = "UsernamePasswordSecret.MarshalJSON" -> UsernamePasswordMarshalJSON(s)
    [] op = "GenericSecret.String" -> GenericString(s)
    [] op = "GenericSecret.MarshalText" -> GenericMarshalText(s)
    [] op = "GenericSecret.MarshalJSON" -> GenericMarshalJSON(s)

IsMaskOp(op) ==
  op \in {"UsernamePasswordSecret.String", "UsernamePasswordSecret.MarshalText",
          "UsernamePasswordSecret.MarshalJSON", "GenericSecret.String",
          "GenericSecret.MarshalText", "GenericSecret.MarshalJSON"}

\* Two secrets of one type that the claim calls alike: any two GenericSecrets;
\* two UsernamePasswordSecrets whose usernames are both empty or start with
\* the same character.
Alike(s1, s2) ==
  \/ "Data" \in DOMAIN s1 /\ "Data" \in DOMAIN s2
  \/ /\ "Username" \in DOMAIN s1 /\ "Username" \in DOMAIN s2
     /\ \/ s1.Username = <<>> /\ s2.Username = <<>>
        \/ /\ s1.Username # <<>> /\ s2.Username # <<>>
           /\ FirstChar(s1.Username) = FirstChar(s2.Username)

\* C12: the masked forms do not depend on what is hidden: a method gives the
\* same output for the secret it was called on and for every secret alike
\* (the 16 '*' of a GenericSecret, in quotes as JSON).
C12_MaskHidesContent ==
  (pc = "returned" /\ IsMaskOp(ret.op)) =>
    /\ \A s2 \in MaskSecrets \cup MaskData :
         Alike(ret.recv, s2) => MaskedForm(ret.op, s2) = ret.val
    /\ ret.op = "GenericSecret.String" => ret.val = Stars(16)
    /\ ret.op = "GenericSecret.MarshalJSON" => ret.val = MarshalString(Stars(16))

C12_Witness ==
  /\ pc = "returned"
  /\ ret.op = "UsernamePasswordSecret.MarshalJSON"
  /\ ret.recv = [Username |-> <<Ch.a, Ch.b>>, Password |-> <<Ch.b>>]
  /\ \E s2 \in MaskSecrets :
       /\ Alike(ret.recv, s2)
       /\ s2.Username # ret.recv.Username
       /\ s2.Password # ret.recv.Password

\* C13: resolving "raw://" followed by s.String() never gives s back.
C13_OneWay ==
  (pc = "returned" /\ ret.op \in {"ParseUsernamePasswordSecret",
                                  "ParseGenericSecret"})
    => ret.val # ret.recv

\* The text after the first "://" of an input.
Identifier(input) == From(input, Min(SepAt(input)) + Len(SchemeSep))

\* C14: an error of either resolver carries no secret content: what its
\* message quotes and what its attributes hold is part of the input (the
\* identifier after "://"), never a part of what the resolution read (file
\* contents, a stored value, a variable's value).
C14_NoSecretInErrors ==
  ((Returned("ParseUsernamePasswordSecret") \/ Returned("ParseGenericSecret"))
     /\ ret.err.isErr)
    => /\ \A m \in ret.err.msg : m[1] = "input"
       /\ \A a \in ret.err.attrs : a[2] = Identifier(ret.input)

\* The text before the first "://" of an input.
SchemeOf(input) == SubSeq(input, 1, Min(SepAt(input)) - 1)

\* A resolver returned an error.
ResolverFailed ==
  /\ Returned("ParseUsernamePasswordSecret") \/ Returned("ParseGenericSecret")
  /\ ret.err.isErr

\* The name of the attribute the errors of a scheme carry.
AttrOf(op, scheme) ==
  IF scheme \in {Scheme.awssecret, Scheme.awsbinary} THEN "secret_name"
  ELSE IF scheme \in {Scheme.file, Scheme.filebase64} THEN "filename"
  ELSE IF op = "ParseGenericSecret" THEN "secret_var"
  ELSE "credentials"

C15_WitnessFile ==
  /\ Returned("ParseUsernamePasswordSecret")
  /\ ret.err.code = ParseSecretError
  /\ ret.err.attrs = {<<"filename", Name.nofile>>}

(***************************************************************************)
(* ConcSpec: callers resolve secrets at the same time.  A resolution is    *)
(* two steps: the match of the secret against the expression, kept in the  *)
(* call's local matches, and the switch on matches[1] that reads outside.  *)
(* pc and ret hold one position and one call for each caller.              *)
(***************************************************************************)

NumCallers == 2

Callers == 1..NumCallers

\* A call before its match.
NoMatch(op, secret, aws) ==
  [op |-> op, input |-> secret, aws |-> aws,
   matches |-> [ok |-> FALSE, scheme |-> <<>>, payload |-> <<>>],
   r |-> Ret(ZeroCreds, NilErr, {})]

ConcInit ==
  /\ test \in SpecTests
  /\ world = WorldOf(test)
  /\ ups = ZeroCreds
  /\ gen = ZeroSecret
  /\ pc = [p \in Callers |-> "idle"]
  /\ ret = [p \in Callers |-> NoMatch("none", <<>>, "ok")]

\* The secrets the callers resolve: one that reads nothing, one that reads
\* variables, one a file, one the store, one that is refused, and "".
ConcInputs ==
  {URL(Scheme.raw, Pair(<<Ch.a>>, <<Ch.b>>)),
   URL(Scheme.env, Pair(Name.username, Name.password)),
   URL(Scheme.file, Name.file), URL(Scheme.awssecret, Name.aws),
   URL(Scheme.raw, <<Ch.a>>), <<>>}

\* matches as a variable of the package, which every call writes.
SetMatchesShared(calls, p, call) ==
  [q \in DOMAIN calls |->
     IF q = p THEN call ELSE [calls[q] EXCEPT !.matches = call.matches]]

\* matches := regex.FindStringSubmatch(secret): a local variable of the call
\* of caller p.
SetMatches(calls, p, call) == [calls EXCEPT ![p] = call]

\* The call of caller p begins: the empty secret returns at once, any other
\* is matched against the expression of schemes alts.
Begins(p, op, alts, atLeastOne, zero, secret, aws) ==
  /\ IF secret = <<>>
     THEN /\ pc' = [pc EXCEPT ![p] = "returned"]
          /\ ret' = [ret EXCEPT ![p] =
                       [NoMatch(op, secret, aws) EXCEPT !.r = Ret(zero, NilErr, {})]]
     ELSE /\ pc' = [pc EXCEPT ![p] = "matched"]
          /\ ret' = SetMatches(ret, p,
                       [NoMatch(op, secret, aws) EXCEPT
                          !.matches = FindStringSubmatch(alts, atLeastOne, secret)])
  /\ UNCHANGED <<test, world, ups, gen>>

\* The call of caller p goes through its switch and returns r.
Switches(p, r) ==
  /\ pc' = [pc EXCEPT ![p] = "returned"]
  /\ ret' = [ret EXCEPT ![p].r = r]
  /\ UNCHANGED <<test, world, ups, gen>>

ConcNext ==
  \/ \E p \in Callers : \E secret \in ConcInputs :
       \E aws \in StoreOutcomes(secret) :
         /\ pc[p] = "idle"
         /\ Begins(p, "ParseUsernamePasswordSecret", UsernamePasswordSchemes,
                   TRUE, ZeroCreds, secret, aws)
  \/ \E p \in Callers :
       /\ pc[p] = "matched"
       /\ ret[p].op = "ParseUsernamePasswordSecret"
       /\ Switches(p, UsernamePasswordCase(ret[p].matches, world, ret[p].aws))
  \/ \E p \in Callers : \E secret \in ConcInputs :
       \E aws \in StoreOutcomes(secret) :
         /\ pc[p] = "idle"
         /\ Begins(p, "ParseGenericSecret", GenericSchemes, FALSE, ZeroSecret,
                   secret, aws)
  \/ \E p \in Callers :
       /\ pc[p] = "matched"
       /\ ret[p].op = "ParseGenericSecret"
       /\ Switches(p, GenericCase(ret[p].matches, world, ret[p].aws))

ConcSpec == ConcInit /\ [][ConcNext]_vars

\* What the call of caller p returns when it runs alone.
Alone(p) ==
  IF ret[p].op = "ParseUsernamePasswordSecret"
  THEN ParseUsernamePasswordSecret(ret[p].input, world, ret[p].aws)
  ELSE ParseGenericSecret(ret[p].input, world, ret[p].aws)

\* C16: resolutions that run at the same time do not affect each other: each
\* returns what it returns when it runs alone, whatever the other callers
\* resolve meanwhile.
C16_Independent ==
  \A p \in Callers : pc[p] = "returned" => ret[p].r = Alone(p)

\* Caller 1 has returned while caller 2, resolving another secret, stands
\* between its match and its switch.
C16_Witness ==
  /\ pc[1] = "returned" /\ pc[2] = "matched"
  /\ ret[1].input # ret[2].input
  /\ ret[1].matches.ok /\ ret[2].matches.ok
  /\ ret[1].matches # ret[2].matches
  /\ ret[1].r.err = NilErr

(***************************************************************************)
(* CancelSpec: a caller resolves a secret of the store and may cancel its  *)
(* context while the store call is pending                                 *)
(***************************************************************************)

\* Every entry point that is handed the store's context: the context of its
\* caller.
ContextOfCaller(op) == "caller"

\* The context an entry point hands to config.LoadDefaultConfig and
\* client.GetSecretValue: the Parse functions their ctx parameter, the
\* Unmarshal methods context.Background().
ContextOf(op) ==
  IF op \in {"ParseUsernamePasswordSecret", "ParseGenericSecret"}
  THEN "caller" ELSE "background"

CancelInit ==
  /\ test \in SpecTests
  /\ world = WorldOf(test)
  /\ ups = ZeroCreds
  /\ gen = ZeroSecret
  /\ pc = "idle"
  /\ ret = NoCall

\* The secrets of the store a caller asks for, that its resolver has a
\* scheme for.
StoreInputs(schemes) ==
  {URL(Scheme.awssecret, Name.aws), URL(Scheme.awssecret, Name.nosecret)}
    \cup {URL(Scheme.awsbinary, Name.aws_bin) :
            k \in {j \in DOMAIN schemes : schemes[j] = Scheme.awsbinary}}

\* The entry point op is called with input and reaches the store call.
Starts(op, input) ==
  /\ pc' = "pending"
  /\ ret' = [op |-> op, input |-> input, ctx |-> ContextOf(op),
             canceled |-> FALSE, recv |-> ZeroCreds, val |-> ZeroCreds,
             err |-> NilErr]
  /\ UNCHANGED <<test, world, ups, gen>>

\* The caller cancels its context.
Cancel ==
  /\ pc = "pending"
  /\ ~ret.canceled
  /\ ret' = [ret EXCEPT !.canceled = TRUE]
  /\ UNCHANGED <<test, world, ups, gen, pc>>

\* What the entry point returns when the store behaves as aws says: the value
\* returned (the receiver after an Unmarshal) and the error.
Resolved(op, input, aws) ==
  LET Of(r) == [val |-> r.val, err |-> r.err]
      After(u) == [val |-> u.recv, err |-> u.err]
  IN CASE op = "ParseUsernamePasswordSecret" ->
            Of(ParseUsernamePasswordSecret(input, world, aws))
       [] op = "ParseGenericSecret" ->
            Of(ParseGenericSecret(input, world, aws))
       [] op = "UsernamePasswordSecret.UnmarshalText" ->
            After(UsernamePasswordUnmarshalText(ups, input, world, aws))
       [] op = "UsernamePasswordSecret.UnmarshalJSON" ->
            After(UsernamePasswordUnmarshalJSON(ups, input, world, aws))
       [] op = "GenericSecret.UnmarshalText" ->
            After(GenericUnmarshalText(gen, input, world, aws))
       [] op = "GenericSecret.UnmarshalJSON" ->
            After(GenericUnmarshalJSON(gen, input, world, aws))

\* The entry point returns r.
Ends(r) ==
  /\ pc' = "returned"
  /\ ret' = [ret EXCEPT !.val = r.val, !.err = r.err]
  /\ UNCHANGED <<test, world, ups, gen>>

\* The store call ends and the entry point returns: the call made under a
\* canceled context is aborted with the context's error; any other is
\* answered or fails by itself.
StoreReturns ==
  /\ pc = "pending"
  /\ \E aws \in IF ret.ctx = "caller" /\ ret.canceled
                THEN {"fetch_error"} ELSE {"ok", "fetch_error"} :
       Ends(Resolved(ret.op, ret.input, aws))

CancelNext ==
  \/ /\ pc = "idle"
     /\ \E secret \in StoreInputs(UsernamePasswordSchemes) :
          Starts("ParseUsernamePasswordSecret", secret)
  \/ /\ pc = "idle"
     /\ \E secret \in StoreInputs(GenericSchemes) :
          Starts("ParseGenericSecret", secret)
  \/ /\ pc = "idle"
     /\ \E data \in StoreInputs(UsernamePasswordSchemes) :
          Starts("UsernamePasswordSecret.UnmarshalText", data)
  \/ /\ pc = "idle"
     /\ \E data \in StoreInputs(UsernamePasswordSchemes) :
          Starts("UsernamePasswordSecret.UnmarshalJSON", MarshalString(data))
  \/ /\ pc = "idle"
     /\ \E data \in StoreInputs(GenericSchemes) :
          Starts("GenericSecret.UnmarshalText", data)
  \/ /\ pc = "idle"
     /\ \E data \in StoreInputs(GenericSchemes) :
          Starts("GenericSecret.UnmarshalJSON", MarshalString(data))
  \/ Cancel
  \/ StoreReturns

CancelSpec == CancelInit /\ [][CancelNext]_vars

\* The caller canceled its context while the store call was pending, and the
\* entry point has returned.
CanceledPending == pc = "returned" /\ ret.canceled

\* C17 as stated: at every entry point, a resolution whose context was
\* canceled while the store call was pending returns SecretProviderError.
C17_CancelEverywhere ==
  CanceledPending => ret.err.code = SecretProviderError

\* C17: ParseUsernamePasswordSecret and ParseGenericSecret hand their ctx to
\* the store call, so a cancellation while it is pending aborts it and they
\* return SecretProviderError and the zero value.  UnmarshalText and
\* UnmarshalJSON take no context and resolve under context.Background().
C17_CancelParse ==
  /\ (CanceledPending /\ ret.op \in {"ParseUsernamePasswordSecret",
                                     "ParseGenericSecret"})
       => /\ ret.ctx = "caller"
          /\ ret.err.code = SecretProviderError
          /\ ret.val \in {ZeroCreds, ZeroSecret}
  /\ (pc # "idle" /\ ret.op \notin {"ParseUsernamePasswordSecret",
                                    "ParseGenericSecret"})
       => ret.ctx = "background"

\* ParseGenericSecret was canceled while it waited for a stored secret.
C17_Witness ==
  /\ CanceledPending
  /\ ret.op = "ParseGenericSecret"
  /\ ret.input = URL(Scheme.awssecret, Name.aws)
  /\ ret.err.code = SecretProviderError

\* UnmarshalText returned the stored secret although its caller had
\* canceled.
C17_WitnessUnmarshal ==
  /\ CanceledPending
  /\ ret.op = "GenericSecret.UnmarshalText"
  /\ ret.err = NilErr
  /\ ret.val # ZeroSecret

(***************************************************************************)
(* Duration: ParseDuration with the suffixes mo, w, d and y.  The 64-bit   *)
(* integers of the code are sequences of decimal digits, the most          *)
(* significant first and no zero at the head (the empty sequence is 0).    *)
(***************************************************************************)

\* d without the zeros at its head.
Norm(d) ==
  LET nz == {i \in 1..Len(d) : d[i] # 0}
  IN IF nz = {} THEN <<>> ELSE SubSeq(d, Min(nz), Len(d))

\* d * k for a k of at most five digits; c[i] is the carry out of the i
\* lowest digits.
Times(d, k) ==
  LET n == Len(d)
      c[i \in 0..n] == IF i = 0 THEN 0 ELSE (d[n - i + 1] * k + c[i - 1]) \div 10
      head == [i \in 1..5 |-> (c[n] \div (10 ^ (5 - i))) % 10]
  IN Norm(head \o [i \in 1..n |-> (d[i] * k + c[n - i]) % 10])

\* a + b
Plus(a, b) ==
  LET n == Max({Len(a), Len(b)})
      A(i) == IF i < Len(a) THEN a[Len(a) - i] ELSE 0
      B(i) == IF i < Len(b) THEN b[Len(b) - i] ELSE 0
      c[i \in 0..n] == IF i = 0 THEN 0 ELSE (A(i - 1) + B(i - 1) + c[i - 1]) \div 10
  IN Norm(<<c[n]>> \o [i \in 1..n |-> (A(n - i) + B(n - i) + c[n - i]) % 10])

\* a - b for a >= b; c[i] is what the i lowest digits borrow.
Minus(a, b) ==
  LET n == Len(a)
      B(i) == IF i < Len(b) THEN b[Len(b) - i] ELSE 0
      c[i \in 0..n] == IF i = 0 THEN 0
                       ELSE IF a[n - i + 1] - B(i - 1) - c[i - 1] < 0 THEN 1 ELSE 0
  IN Norm([i \in 1..n |-> (a[i] - B(n - i) - c[n - i] + 10) % 10])

\* a <= b
Leq(a, b) ==
  \/ Len(a) < Len(b)
  \/ /\ Len(a) = Len(b)
     /\ \/ a = b
        \/ \E i \in 1..Len(a) :
             a[i] < b[i] /\ \A j \in 1..(i - 1) : a[j] = b[j]

\* 1 << 63 and 1 << 64
TwoTo63 == <<9, 2, 2, 3, 3, 7, 2, 0, 3, 6, 8, 5, 4, 7, 7, 5, 8, 0, 8>>

TwoTo64 == <<1, 8, 4, 4, 6, 7, 4, 4, 0, 7, 3, 7, 0, 9, 5, 5, 1, 6, 1, 6>>

\* An int64: its sign and its magnitude.
Int64(neg, mag) == [neg |-> neg /\ mag # <<>>, mag |-> mag]

\* The int64 that the integer Int64(neg, mag) wraps to: it is taken modulo
\* 1 << 64 into -(1 << 63) .. (1 << 63) - 1.  The quotient by 1 << 64 is
\* sought from an estimate, made of the digits above the fifteen lowest
\* (1 << 64 lies between 18446 and 18447 times 10^15).
Wrap64(neg, mag) ==
  LET top == IF Len(mag) <= 15 THEN <<>> ELSE SubSeq(mag, 1, Len(mag) - 15)
      num[i \in 0..Len(top)] == IF i = 0 THEN 0 ELSE num[i - 1] * 10 + top[i]
      est == num[Len(top)] \div 18447
      q == CHOOSE k \in est..(est + 3) :
             /\ Leq(Times(TwoTo64, k), mag)
             /\ ~Leq(Times(TwoTo64, k + 1), mag)
      r == Minus(mag, Times(TwoTo64, q))
      \* the value as a uint64
      u == IF neg /\ r # <<>> THEN Minus(TwoTo64, r) ELSE r
  IN IF Leq(TwoTo63, u) THEN Int64(TRUE, Minus(TwoTo64, u))
     ELSE Int64(FALSE, u)

\* The length of the longest prefix of s whose bytes are in set.
PrefixIn(s, set) ==
  LET out == {i \in 1..Len(s) : s[i] \notin set}
  IN IF out = {} THEN Len(s) ELSE Min(out) - 1

Digits == Ch.zero..Ch.nine

\* The number that the decimal digits s spell.
Value(s) == Norm([i \in 1..Len(s) |-> s[i] - Ch.zero])

\* strconv.ParseInt(s, 10, 64): a sign, then digits only; the value must be
\* an int64.
ParseInt(s) ==
  LET signed == s # <<>> /\ s[1] \in {Ch.plus, Ch.minus}
      neg == s # <<>> /\ s[1] = Ch.minus
      digits == IF signed THEN Tail(s) ELSE s
  IN IF digits = <<>> \/ PrefixIn(digits, Digits) # Len(digits)
     THEN [ok |-> FALSE, val |-> Int64(FALSE, <<>>)]
     ELSE IF neg /\ ~Leq(Value(digits), TwoTo63)
       THEN [ok |-> FALSE, val |-> Int64(FALSE, <<>>)]
     ELSE IF ~neg /\ Leq(TwoTo63, Value(digits))
       THEN [ok |-> FALSE, val |-> Int64(FALSE, <<>>)]
     ELSE [ok |-> TRUE, val |-> Int64(neg, Value(digits))]

\* fmt.Sprintf("%d", n)
FormatInt(n) ==
  (IF n.neg THEN <<Ch.minus>> ELSE <<>>)
    \o (IF n.mag = <<>> THEN <<Ch.zero>>
        ELSE [i \in 1..Len(n.mag) |-> n.mag[i] + Ch.zero])

\* time's unitMap: a unit's nanoseconds as a factor and a number of zeros.
UnitMap ==
  (<<110, 115>> :> <<1, 0>>) @@ (<<117, 115>> :> <<1, 3>>)
    @@ (<<194, 181, 115>> :> <<1, 3>>) @@ (<<206, 188, 115>> :> <<1, 3>>)
    @@ (<<109, 115>> :> <<1, 6>>) @@ (<<115>> :> <<1, 9>>)
    @@ (<<109>> :> <<6, 10>>) @@ (<<104>> :> <<36, 11>>)

\* The terms of a duration from s on, d being the sum of those before: each
\* is digits and a unit; a number, a term or a sum above 1 << 63 is refused.
\* (A fraction, "1.5h", is not modelled: the inputs hold no '.'.)
RECURSIVE DurationTerms(_, _)
DurationTerms(s, d) ==
  LET n == PrefixIn(s, Digits)
      v == Value(SubSeq(s, 1, n))
      rest == SubSeq(s, n + 1, Len(s))
      u == PrefixIn(rest, (0..255) \ (Digits \cup {Ch.dot}))
      unit == SubSeq(rest, 1, u)
      ns == IF v = <<>> THEN <<>>
            ELSE Times(v, UnitMap[unit][1])
                   \o [i \in 1..UnitMap[unit][2] |-> 0]
      \* d += v in uint64
      sum == IF Plus(d, ns) = TwoTo64 THEN <<>> ELSE Plus(d, ns)
      Fail == [ok |-> FALSE, d |-> <<>>]
  IN IF s = <<>> THEN [ok |-> TRUE, d |-> d]
     ELSE IF n = 0 \/ ~Leq(v, TwoTo63) THEN Fail
     ELSE IF u = 0 \/ unit \notin DOMAIN UnitMap THEN Fail
     ELSE IF ~Leq(ns, TwoTo63) \/ ~Leq(sum, TwoTo63) THEN Fail
     ELSE DurationTerms(SubSeq(rest, u + 1, Len(rest)), sum)

\* time.ParseDuration(s): [-+]? then terms, or "0".
TimeParseDuration(s) ==
  LET signed == s # <<>> /\ s[1] \in {Ch.plus, Ch.minus}
      neg == s # <<>> /\ s[1] = Ch.minus
      body == IF signed THEN Tail(s) ELSE s
      terms == DurationTerms(body, <<>>)
      Fail == [ok |-> FALSE, val |-> Int64(FALSE, <<>>)]
  IN IF body = <<Ch.zero>> THEN [ok |-> TRUE, val |-> Int64(FALSE, <<>>)]
     ELSE IF body = <<>> \/ ~terms.ok THEN Fail
     ELSE IF ~neg /\ Leq(TwoTo63, terms.d) THEN Fail
     ELSE [ok |-> TRUE, val |-> Int64(neg, terms.d)]

\* The suffix that dur ends with, mo before w, d and y: dur without it and the
\* hours of one such period (0 hours: none of the four).
HourPeriodMonth31(dur) ==
  LET HasSuffix(sfx) == /\ Len(dur) >= Len(sfx)
                        /\ SubSeq(dur, Len(dur) - Len(sfx) + 1, Len(dur)) = sfx
      Trim(sfx, hours) == [dur |-> SubSeq(dur, 1, Len(dur) - Len(sfx)),
                           hours |-> hours]
  IN IF HasSuffix(<<109, 111>>) THEN Trim(<<109, 111>>, 31 * 24)
     ELSE IF HasSuffix(<<119>>) THEN Trim(<<119>>, 7 * 24)
     ELSE IF HasSuffix(<<100>>) THEN Trim(<<100>>, 24)
     ELSE IF HasSuffix(<<121>>) THEN Trim(<<121>>, 365 * 24)
     ELSE [dur |-> dur, hours |-> 0]

HourPeriod(dur) ==
  LET HasSuffix(sfx) == /\ Len(dur) >= Len(sfx)
                        /\ SubSeq(dur, Len(dur) - Len(sfx) + 1, Len(dur)) = sfx
      Trim(sfx, hours) == [dur |-> SubSeq(dur, 1, Len(dur) - Len(sfx)),
                           hours |-> hours]
  IN IF HasSuffix(<<109, 111>>) THEN Trim(<<109, 111>>, 30 * 24)
     ELSE IF HasSuffix(<<119>>) THEN Trim(<<119>>, 7 * 24)
     ELSE IF HasSuffix(<<100>>) THEN Trim(<<100>>, 24)
     ELSE IF HasSuffix(<<121>>) THEN Trim(<<121>>, 365 * 24)
     ELSE [dur |-> dur, hours |-> 0]

\* ParseDuration(dur).  val > math.MaxInt64/hourPeriod is computed as
\* val * hourPeriod > math.MaxInt64, which is the same for a hourPeriod above
\* 0; val * hourPeriod itself is the int64 product, which wraps.
ParseDuration(dur) ==
  LET p == HourPeriod(dur)
      val == ParseInt(p.dur)
      Fail(cause) == [ok |-> FALSE, val |-> Int64(FALSE, <<>>),
                      err |-> PlainErr(cause)]
      Std(s) == IF TimeParseDuration(s).ok
                THEN [ok |-> TRUE, val |-> TimeParseDuration(s).val,
                      err |-> NilErr]
                ELSE Fail("time.ParseDuration")
  IN IF dur = <<>> THEN [ok |-> TRUE, val |-> Int64(FALSE, <<>>), err |-> NilErr]
     ELSE IF p.hours = 0 THEN Std(dur)
     ELSE IF ~val.ok THEN Fail("strconv.ParseInt")
     ELSE IF ~val.val.neg /\ Leq(TwoTo63, Times(val.val.mag, p.hours))
       THEN Fail("exceeds")
     ELSE Std(FormatInt(Wrap64(val.val.neg, Times(val.val.mag, p.hours)))
                \o <<104>>)

(***************************************************************************)
(* DurationSpec: one call of ParseDuration on a duration of the caller.    *)
(***************************************************************************)
\* The longest number that the caller writes digit by digit.
MaxDigits == 2

\* Numbers at the edges of the int64 range of hours and nanoseconds, and
\* those of the package's test.
EdgeNumbers ==
  LET D(s) == [i \in 1..Len(s) |-> s[i] + Ch.zero]
  IN {D(<<1, 3, 4>>), D(<<2, 9, 2>>), D(<<2, 9, 3>>),
      D(<<3, 5, 5, 8>>), D(<<3, 5, 5, 9>>),
      D(<<1, 5, 2, 5, 0>>), D(<<1, 5, 2, 5, 1>>),
      D(<<1, 0, 6, 7, 5, 1>>), D(<<1, 0, 6, 7, 5, 2>>),
      D(<<2, 5, 6, 2, 0, 4, 7>>), D(<<2, 5, 6, 2, 0, 4, 8>>),
      D(<<1, 2, 8, 1, 0, 2, 3, 8, 9, 4, 0, 0, 7, 6, 0, 7, 7>>),
      D(<<1, 2, 8, 1, 0, 2, 3, 8, 9, 4, 0, 0, 7, 6, 0, 7, 8>>),
      D(<<3, 8, 4, 3, 0, 7, 1, 6, 8, 2, 0, 2, 2, 8, 2, 3, 2, 5>>),
      D(<<3, 8, 4, 3, 0, 7, 1, 6, 8, 2, 0, 2, 2, 8, 2, 3, 2, 6>>),
      D(TwoTo63), D(Minus(TwoTo63, <<1>>)), D(TwoTo64)}

DurationInputs ==
  LET Numbers == StrUpTo(Digits, MaxDigits) \cup EdgeNumbers
      Signed == Numbers \cup {<<Ch.minus>> \o n : n \in Numbers}
      Suffixes == {<<>>, <<109, 111>>, <<119>>, <<100>>, <<121>>,
                   <<104>>, <<109>>, <<110, 115>>, <<120>>}
  IN {n \o s : n \in Signed, s \in Suffixes}
       \cup {<<49, 104, 51, 48, 109>>, <<43, 53, 100>>}

DurationInit ==
  /\ test = NoTest
  /\ world = EmptyWorld
  /\ ups = ZeroCreds
  /\ gen = ZeroSecret
  /\ pc = "idle"
  /\ ret = NoCall

DurationNext ==
  \/ /\ pc = "idle"
     /\ \E dur \in DurationInputs :
          /\ pc' = "returned"
          /\ ret' = [op |-> "ParseDuration", input |-> dur,
                     val |-> ParseDuration(dur).val,
                     err |-> ParseDuration(dur).err]
          /\ UNCHANGED <<test, world, ups, gen>>

DurationSpec == DurationInit /\ [][DurationNext]_vars

\* Whether the call in ret was given the decimal digits of a number and then
\* sfx.
NumberWith(sfx) ==
  /\ ret.op = "ParseDuration"
  /\ Len(ret.input) > Len(sfx)
  /\ SubSeq(ret.input, Len(ret.input) - Len(sfx) + 1, Len(ret.input)) = sfx
  /\ \A i \in 1..(Len(ret.input) - Len(sfx)) : ret.input[i] \in Digits

\* The nanoseconds of hours times the number that ret.input starts with.
NanosOf(sfx, hours, factor, zeros) ==
  LET n == Value(SubSeq(ret.input, 1, Len(ret.input) - Len(sfx)))
      h == Times(n, hours)
  IN IF h = <<>> THEN <<>>
     ELSE Times(h, factor) \o [i \in 1..zeros |-> 0]

\* The call returned the nanoseconds without an error, if they fit in an
\* int64.
ReturnsNanos(ns) ==
  ~Leq(TwoTo63, ns) => ~ret.err.isErr /\ ret.val = Int64(FALSE, ns)

\* C18: for every non-negative integer N, ParseDuration returns N x 30 days
\* for "Nmo", N x 7 days for "Nw", N x 24 hours for "Nd" and N x 365 days for
\* "Ny", without an error whenever that fits in an int64 of nanoseconds; ""
\* is 0; and "Nm" is N minutes, as time.ParseDuration has it.
C18_ExtendedSuffixes ==
  /\ NumberWith(<<109, 111>>)
       => ReturnsNanos(NanosOf(<<109, 111>>, 30 * 24, 36, 11))
  /\ NumberWith(<<119>>) => ReturnsNanos(NanosOf(<<119>>, 7 * 24, 36, 11))
  /\ NumberWith(<<100>>) => ReturnsNanos(NanosOf(<<100>>, 24, 36, 11))
  /\ NumberWith(<<121>>) => ReturnsNanos(NanosOf(<<121>>, 365 * 24, 36, 11))
  /\ NumberWith(<<109>>) => ReturnsNanos(NanosOf(<<109>>, 1, 6, 10))
  /\ ret.op = "ParseDuration" /\ ret.input = <<>>
       => ~ret.err.isErr /\ ret.val = Int64(FALSE, <<>>)

\* "134y" and "292y", the last year that fits, were parsed.
C18_Witness ==
  /\ NumberWith(<<121>>)
  /\ ret.input \in {<<49, 51, 52, 121>>, <<50, 57, 50, 121>>}
  /\ ~ret.err.isErr
  /\ ret.val.mag # <<>>

(***************************************************************************)
(* UserID and GroupID: an ID is an int, kept as an Int64.                  *)
(***************************************************************************)
\* id < -1 || id > 65535
OutOfRange(id) ==
  IF id.neg THEN Leq(<<2>>, id.mag) ELSE Leq(<<6, 5, 5, 3, 6>>, id.mag)

MinusOne == Int64(TRUE, <<1>>)

\* parseAccountID(data, getCurrentID, lookupAccount): current is what
\* getCurrentID returns, and accounts maps the names that lookupAccount
\* finds to the ID it returns for them, a string.
ParseAccountIDUpTo65536(data, current, accounts) ==
  LET Fail(cause) == [ok |-> FALSE, id |-> Int64(TRUE, <<2>>),
                      err |-> PlainErr(cause)]
      Ok(id) == [ok |-> TRUE, id |-> id, err |-> NilErr]
  IN IF data = <<>> THEN Ok(current)
     ELSE IF ParseInt(data).ok THEN
       IF OutOfRange(ParseInt(data).val)
            /\ ParseInt(data).val # Int64(FALSE, <<6, 5, 5, 3, 6>>)
       THEN Fail("range")
       ELSE IF ParseInt(data).val = MinusOne THEN Ok(current)
       ELSE Ok(ParseInt(data).val)
     ELSE IF data \notin DOMAIN accounts THEN Fail("lookup")
     ELSE IF ~ParseInt(accounts[data]).ok THEN Fail("strconv.Atoi")
     ELSE Ok(ParseInt(accounts[data]).val)

ParseAccountID(data, current, accounts) ==
  LET Fail(cause) == [ok |-> FALSE, id |-> Int64(TRUE, <<2>>),
                      err |-> PlainErr(cause)]
      Ok(id) == [ok |-> TRUE, id |-> id, err |-> NilErr]
  IN IF data = <<>> THEN Ok(current)
     ELSE IF ParseInt(data).ok THEN
       IF OutOfRange(ParseInt(data).val) THEN Fail("range")
       ELSE IF ParseInt(data).val = MinusOne THEN Ok(current)
       ELSE Ok(ParseInt(data).val)
     ELSE IF data \notin DOMAIN accounts THEN Fail("lookup")
     ELSE IF ~ParseInt(accounts[data]).ok THEN Fail("strconv.Atoi")
     ELSE Ok(ParseInt(accounts[data]).val)

\* UnmarshalText of either type on the receiver that holds recv: what the
\* receiver holds afterwards, and the error.
IDUnmarshalText(data, recv, current, accounts) ==
  LET Parsed(r) == [recv |-> IF r.ok THEN r.id ELSE recv, err |-> r.err]
  IN Parsed(ParseAccountID(data, current, accounts))

\* UnmarshalJSON of either type, doc being the document that data holds.
\* json.Unmarshal(data, &id) stores a number that an int holds, leaves id 0
\* at null and fails on anything else; json.Unmarshal(data, &strID) then
\* stores a string only.
IDUnmarshalJSON(doc, data, recv, current, accounts) ==
  LET lit == SubSeq(data, SkipWS(data, 1), doc.next - 1)
      isInt == doc.ok /\ doc.kind = "number" /\ ParseInt(lit).ok
      id == IF isInt THEN ParseInt(lit).val ELSE Int64(FALSE, <<>>)
      Fail(cause) == [recv |-> recv, err |-> PlainErr(cause)]
  IN IF isInt \/ (doc.ok /\ doc.kind = "null") THEN
       IF OutOfRange(id) THEN Fail("range")
       ELSE [recv |-> IF id = MinusOne THEN current ELSE id, err |-> NilErr]
     ELSE IF ~doc.ok THEN Fail(JsonSyntaxError)
     ELSE IF doc.kind # "string" THEN Fail(JsonTypeError)
     ELSE IDUnmarshalText(doc.str, recv, current, accounts)

(***************************************************************************)
(* AccountSpec: one Unmarshal call on a UserID or a GroupID.  world holds  *)
(* what the process and the system's account database answer.             *)
(***************************************************************************)
AccountWorlds ==
  LET root == <<114, 111, 111, 116>>
      www == <<119, 119, 119>>
      ids == {<< <<>>, <<>> >>, << <<1, 0, 0, 0>>, <<1, 0, 0>> >>,
              << <<1, 0, 0, 0, 0, 0>>, <<1, 0, 0, 0, 0, 0>> >>}
      users == {<<>>, (root :> <<48>>) @@ (www :> <<51, 51>>)}
  IN {[uid |-> Int64(FALSE, i[1]), gid |-> Int64(FALSE, i[2]), users |-> u,
       groups |-> IF u = <<>> THEN u ELSE [u EXCEPT ![www] = <<52, 52>>]] :
        i \in ids, u \in users}

\* The numbers, names and documents that a caller gives.
AccountTexts ==
  LET D(s) == [i \in 1..Len(s) |-> s[i] + Ch.zero]
      Numbers == StrUpTo(Digits, MaxDigits)
                   \cup {D(<<6, 5, 5, 3, 5>>), D(<<6, 5, 5, 3, 6>>),
                         D(Minus(TwoTo63, <<1>>)), D(TwoTo63), D(TwoTo64)}
  IN Numbers \cup {<<Ch.minus>> \o n : n \in Numbers}
       \cup {<<114, 111, 111, 116>>, <<119, 119, 119>>, <<120>>,
             <<43, 53>>, <<49, 101, 51>>, <<49, 46, 53>>}

AccountDocuments ==
  AccountTexts \cup {<<Ch.quote>> \o s \o <<Ch.quote>> : s \in AccountTexts}
    \cup {<<110, 117, 108, 108>>, <<116, 114, 117, 101>>, <<91, 49, 93>>,
          <<32, 55, 32>>, <<Ch.quote>>}

AccountInit ==
  /\ test = NoTest
  /\ world \in AccountWorlds
  /\ ups = ZeroCreds
  /\ gen = ZeroSecret
  /\ pc = "idle"
  /\ ret = NoCall

\* The method op, called with data on a receiver that held recv, returns r.
UnmarshalsID(op, data, recv, r) ==
  /\ pc' = "returned"
  /\ ret' = [op |-> op, input |-> data, recv |-> recv, val |-> r.recv,
             err |-> r.err]
  /\ UNCHANGED <<test, world, ups, gen>>

AccountNext ==
  \/ /\ pc = "idle"
     /\ \E data \in AccountDocuments, recv \in {world.uid, MinusOne} :
          UnmarshalsID("UserID.UnmarshalJSON", data, recv,
                       IDUnmarshalJSON(JsonParse(data), data, recv, world.uid,
                                       world.users))
  \/ /\ pc = "idle"
     /\ \E data \in AccountTexts, recv \in {world.uid, MinusOne} :
          UnmarshalsID("UserID.UnmarshalText", data, recv,
                       IDUnmarshalText(data, recv, world.uid, world.users))
  \/ /\ pc = "idle"
     /\ \E data \in AccountDocuments, recv \in {world.gid, MinusOne} :
          UnmarshalsID("GroupID.UnmarshalJSON", data, recv,
                       IDUnmarshalJSON(JsonParse(data), data, recv, world.gid,
                                       world.groups))
  \/ /\ pc = "idle"
     /\ \E data \in AccountTexts, recv \in {world.gid, MinusOne} :
          UnmarshalsID("GroupID.UnmarshalText", data, recv,
                       IDUnmarshalText(data, recv, world.gid, world.groups))

AccountSpec == AccountInit /\ [][AccountNext]_vars

\* The call in ret is an Unmarshal of a UserID or a GroupID.
IsUserOp == ret.op \in {"UserID.UnmarshalJSON", "UserID.UnmarshalText"}

IsGroupOp == ret.op \in {"GroupID.UnmarshalJSON", "GroupID.UnmarshalText"}

IsJsonOp == ret.op \in {"UserID.UnmarshalJSON", "GroupID.UnmarshalJSON"}

\* The ID of the process that the call in ret reads.
CurrentID == IF IsUserOp THEN world.uid ELSE world.gid

\* What the caller wrote: the input itself (text, or a JSON number), or what
\* stands between the quotes of a JSON string.
Written ==
  IF IsJsonOp /\ Len(ret.input) >= 2 /\ ret.input[1] = Ch.quote
       /\ ret.input[Len(ret.input)] = Ch.quote
  THEN SubSeq(ret.input, 2, Len(ret.input) - 1)
  ELSE ret.input

\* Written is the decimal form of an int: -? (0 | [1-9][0-9]*), at most
\* (1 << 63) - 1 and at least -(1 << 63).
WrittenDigits ==
  IF Written # <<>> /\ Written[1] = Ch.minus THEN Tail(Written) ELSE Written

WrittenInt ==
  /\ IsUserOp \/ IsGroupOp
  /\ WrittenDigits # <<>>
  /\ \A i \in 1..Len(WrittenDigits) : WrittenDigits[i] \in Digits
  /\ WrittenDigits[1] = Ch.zero => Len(WrittenDigits) = 1
  /\ IF Written[1] = Ch.minus THEN Leq(Value(WrittenDigits), TwoTo63)
     ELSE ~Leq(TwoTo63, Value(WrittenDigits))

\* The caller wrote the empty string: "" in JSON, no byte as text.
WrittenEmpty ==
  /\ IsUserOp \/ IsGroupOp
  /\ ret.input = IF IsJsonOp THEN <<Ch.quote, Ch.quote>> ELSE <<>>

WrittenNegative == Written[1] = Ch.minus /\ Value(WrittenDigits) # <<>>

\* C19: "" and -1, as a JSON number, a JSON string or text, store the ID of
\* the process; a number from 0 to 65535 is stored, the same in the three
\* forms; a number below -1 or above 65535 is an error.
C19_NumericInput ==
  /\ WrittenEmpty => ~ret.err.isErr /\ ret.val = CurrentID
  /\ WrittenInt /\ WrittenNegative /\ Value(WrittenDigits) = <<1>>
       => ~ret.err.isErr /\ ret.val = CurrentID
  /\ WrittenInt /\ ~WrittenNegative /\ ~Leq(<<6, 5, 5, 3, 6>>, Value(WrittenDigits))
       => ~ret.err.isErr /\ ret.val = Int64(FALSE, Value(WrittenDigits))
  /\ WrittenInt /\ WrittenNegative /\ Leq(<<2>>, Value(WrittenDigits))
       => ret.err.isErr
  /\ WrittenInt /\ ~WrittenNegative /\ Leq(<<6, 5, 5, 3, 6>>, Value(WrittenDigits))
       => ret.err.isErr

\* -1 in a JSON string stored the group of a process whose group is not 0
\* over another ID.
C19_Witness ==
  /\ ret.op = "GroupID.UnmarshalJSON"
  /\ ret.input = <<Ch.quote, Ch.minus, 49, Ch.quote>>
  /\ ret.val = world.gid
  /\ ret.val # Int64(FALSE, <<>>)
  /\ ret.recv # ret.val

\* 65535 as text was stored in a UserID.
C19_WitnessNumber ==
  /\ ret.op = "UserID.UnmarshalText"
  /\ ret.input = <<54, 53, 53, 51, 53>>
  /\ ret.val = Int64(FALSE, <<6, 5, 5, 3, 5>>)

(***************************************************************************)
(* Path: the file system is nodes, a map of the paths that exist to what   *)
(* stands there (kind "dir" or "file", permission bits, owner, group and   *)
(* content); "/" and "." are always directories.  env is the process: its  *)
(* euid and gid, its umask, and deny, the calls that the system refuses.   *)
(* Paths hold no "." or ".." component and no doubled slash.               *)
(***************************************************************************)
PathError == 1

PathChmodError == 2

PathChownError == 3

PathCreateError == 4

PathOpenFileError == 5

\* path.Dir(s): s up to its last slash, without the slashes at the end.
PathDir(s) ==
  LET slashes == {i \in 1..Len(s) : s[i] = Ch.slash}
      kept == {i \in 1..Len(s) : i < Max(slashes) /\ s[i] # Ch.slash}
  IN IF slashes = {} THEN <<Ch.dot>>
     ELSE IF kept = {} THEN <<Ch.slash>>
     ELSE SubSeq(s, 1, Max(kept))

\* fmt.Sprintf("%o", m) for a mode below 0o100000.
FormatOctal(m) ==
  LET d == Norm([i \in 1..5 |-> (m \div (8 ^ (5 - i))) % 8])
  IN IF d = <<>> THEN <<Ch.zero>> ELSE [i \in 1..Len(d) |-> d[i] + Ch.zero]

\* The permission bits that a system call takes of os.FileMode(m), cleared
\* of those in mask: os.FileMode keeps them in its nine lowest bits.
PermBits(m, mask) ==
  LET Bit(x, i) == (x \div (2 ^ i)) % 2
      sum[i \in 0..9] ==
        IF i = 0 THEN 0
        ELSE sum[i - 1] + (IF Bit(m, i - 1) = 1 /\ Bit(mask, i - 1) = 0
                           THEN 2 ^ (i - 1) ELSE 0)
  IN sum[9]

IsDir(nodes, path) == path \in DOMAIN nodes /\ nodes[path].kind = "dir"

\* os.MkdirAll(path, perm): nothing to do at a directory; an error at a
\* file, or below one; else the missing directories are made from the top,
\* until the system refuses one (env.deny.mkdir counts the ones it lets be
\* made first; -1: it refuses none).
OsMkdirAll(nodes, path, perm, env) ==
  LET ends == {i \in 1..Len(path) :
                 /\ path[i] # Ch.slash
                 /\ i = Len(path) \/ path[i + 1] = Ch.slash}
      there == {i \in ends : SubSeq(path, 1, i) \in DOMAIN nodes}
      missing == {i \in ends : \A j \in there : j < i}
      made == {i \in missing :
                 \/ env.deny.mkdir < 0
                 \/ Cardinality({j \in missing : j < i}) < env.deny.mkdir}
      New == [kind |-> "dir", mode |-> PermBits(perm, env.umask),
              owner |-> env.euid, group |-> env.gid, content |-> <<>>]
      names == {SubSeq(path, 1, i) : i \in made}
  IN IF IsDir(nodes, path) THEN [nodes |-> nodes, ok |-> TRUE]
     ELSE IF \E i \in there : ~IsDir(nodes, SubSeq(path, 1, i))
       THEN [nodes |-> nodes, ok |-> FALSE]
     ELSE [nodes |-> [n \in DOMAIN nodes \cup names |->
                        IF n \in names THEN New ELSE nodes[n]],
           ok |-> made = missing]

\* os.OpenFile(path, flags, perm): flags is the set of the O_ flags given.
OsOpenFile(nodes, path, flags, perm, env) ==
  LET Fail == [nodes |-> nodes, ok |-> FALSE]
      New == [kind |-> "file", mode |-> PermBits(perm, env.umask),
              owner |-> env.euid, group |-> env.gid, content |-> <<>>]
  IN IF env.deny.open \/ ~IsDir(nodes, PathDir(path)) THEN Fail
     ELSE IF path \notin DOMAIN nodes THEN
       IF "O_CREATE" \in flags
       THEN [nodes |-> (path :> New) @@ nodes, ok |-> TRUE]
       ELSE Fail
     ELSE IF {"O_CREATE", "O_EXCL"} \subseteq flags THEN Fail
     ELSE IF IsDir(nodes, path) THEN
       [nodes |-> nodes, ok |-> flags \cap {"O_RDWR", "O_WRONLY"} = {}]
     ELSE IF "O_TRUNC" \in flags /\ flags \cap {"O_RDWR", "O_WRONLY"} # {}
       THEN [nodes |-> [nodes EXCEPT ![path].content = <<>>], ok |-> TRUE]
     ELSE [nodes |-> nodes, ok |-> TRUE]

\* The calls into the system that a method made, in their order.
OsCall(name, path, mode) == [call |-> name, path |-> path, mode |-> mode]

PathChmodDirMode(nodes, p, env) ==
  LET mode == p.DirMode
      stat == OsCall("os.Stat", p.FSPath, 0)
      chmod == OsCall("os.Chmod", p.FSPath, mode)
  IN IF p.FSPath \notin DOMAIN nodes
     THEN [nodes |-> nodes, calls |-> <<stat>>,
           err |-> XErr(PathError, {<<"path", p.FSPath>>}, "os.Stat")]
     ELSE IF env.deny.chmod
     THEN [nodes |-> nodes, calls |-> <<stat, chmod>>,
           err |-> XErr(PathChmodError,
                        {<<"path", p.FSPath>>,
                         <<"new_mode", <<Ch.zero>> \o FormatOctal(mode)>>},
                        "os.Chmod")]
     ELSE [nodes |-> [nodes EXCEPT ![p.FSPath].mode = PermBits(mode, 0)],
           calls |-> <<stat, chmod>>, err |-> NilErr]

\* p.Chmod() on the file system nodes: the result has the file system after
\* it, the error and the calls made.
PathChmod(nodes, p, env) ==
  LET mode == IF IsDir(nodes, p.FSPath) THEN p.DirMode ELSE p.FileMode
      stat == OsCall("os.Stat", p.FSPath, 0)
      chmod == OsCall("os.Chmod", p.FSPath, mode)
  IN IF p.FSPath \notin DOMAIN nodes
     THEN [nodes |-> nodes, calls |-> <<stat>>,
           err |-> XErr(PathError, {<<"path", p.FSPath>>}, "os.Stat")]
     ELSE IF env.deny.chmod
     THEN [nodes |-> nodes, calls |-> <<stat, chmod>>,
           err |-> XErr(PathChmodError,
                        {<<"path", p.FSPath>>,
                         <<"new_mode", <<Ch.zero>> \o FormatOctal(mode)>>},
                        "os.Chmod")]
     ELSE [nodes |-> [nodes EXCEPT ![p.FSPath].mode = PermBits(mode, 0)],
           calls |-> <<stat, chmod>>, err |-> NilErr]

\* p.Chown(): only root changes the owner.  (The new_owner and new_group of
\* the error are account names, which the model leaves out.)
PathChown(nodes, p, env) ==
  LET chown == OsCall("os.Chown", p.FSPath, 0)
  IN IF env.euid # 0 THEN [nodes |-> nodes, calls |-> <<>>, err |-> NilErr]
     ELSE IF env.deny.chown \/ p.FSPath \notin DOMAIN nodes
     THEN [nodes |-> nodes, calls |-> <<chown>>,
           err |-> XErr(PathChownError, {<<"path", p.FSPath>>}, "os.Chown")]
     ELSE [nodes |-> [nodes EXCEPT ![p.FSPath].owner = p.Owner,
                                   ![p.FSPath].group = p.Group],
           calls |-> <<chown>>, err |-> NilErr]

\* The "set ownership and permissions" part of MkdirAll and OpenFile, after
\* the calls made so far.
ChmodChown(nodes, p, env, calls) ==
  LET Start == [nodes |-> nodes, calls |-> calls, err |-> NilErr]
      Chmodded(r) ==
        IF p.AutoChmod THEN [r EXCEPT !.calls = calls \o @] ELSE Start
      Chowned(r) ==
        IF ~r.err.isErr /\ p.AutoChown
        THEN [PathChown(r.nodes, p, env) EXCEPT !.calls = r.calls \o @]
        ELSE r
  IN Chowned(Chmodded(PathChmod(nodes, p, env)))

\* p.MkdirAll()
PathMkdirAll(nodes, p, env) ==
  LET mkdir == OsCall("os.MkdirAll", p.FSPath, p.DirMode)
      Made(r) ==
        IF ~r.ok
        THEN [nodes |-> r.nodes, calls |-> <<mkdir>>,
              err |-> XErr(PathCreateError,
                           {<<"path", p.FSPath>>,
                            <<"dir_mode", FormatOctal(p.DirMode)>>},
                           "os.MkdirAll")]
        ELSE ChmodChown(r.nodes, p, env, <<mkdir>>)
  IN Made(OsMkdirAll(nodes, p.FSPath, p.DirMode, env))

\* The Path that OpenFile makes for the parent folder of p.
ParentOfFileMode(p) ==
  [AutoChmod |-> FALSE, AutoChown |-> FALSE, AutoCreateParent |-> FALSE,
   DirMode |-> p.FileMode, FileMode |-> 0, FSPath |-> PathDir(p.FSPath),
   Group |-> p.Group, Owner |-> p.Owner]

ParentOf(p) ==
  [AutoChmod |-> FALSE, AutoChown |-> FALSE, AutoCreateParent |-> FALSE,
   DirMode |-> p.DirMode, FileMode |-> 0, FSPath |-> PathDir(p.FSPath),
   Group |-> p.Group, Owner |-> p.Owner]

\* p.OpenFile(flags): file is the handle returned, <<>> for nil.  When the
\* parent cannot be made, path.go returns the error of MkdirAll and the other
\* copy of the file wraps it in a PathOpenFileError (env.wraps).
PathOpenFile(nodes, p, flags, env) ==
  LET open == OsCall("os.OpenFile", p.FSPath, p.FileMode)
      attrs == {<<"file", p.FSPath>>, <<"file_mode", FormatOctal(p.FileMode)>>}
      Finished(r) ==
        IF r.err.isErr
        THEN [nodes |-> r.nodes, file |-> <<>>, err |-> r.err,
              calls |-> Append(r.calls, OsCall("file.Close", p.FSPath, 0))]
        ELSE [nodes |-> r.nodes, file |-> <<[path |-> p.FSPath, flags |-> flags]>>,
              err |-> NilErr, calls |-> r.calls]
      Opened(r, calls) ==
        IF ~r.ok
        THEN [nodes |-> r.nodes, file |-> <<>>, calls |-> Append(calls, open),
              err |-> XErr(PathOpenFileError, attrs, "os.OpenFile")]
        ELSE Finished(ChmodChown(r.nodes, p, env, Append(calls, open)))
      Parent(r) ==
        IF r.err.isErr
        THEN [nodes |-> r.nodes, file |-> <<>>, calls |-> r.calls,
              err |-> IF env.wraps THEN Wrapf(PathOpenFileError, attrs, r.err)
                      ELSE r.err]
        ELSE Opened(OsOpenFile(r.nodes, p.FSPath, flags, p.FileMode, env),
                    r.calls)
  IN IF p.AutoCreateParent THEN Parent(PathMkdirAll(nodes, ParentOf(p), env))
     ELSE Opened(OsOpenFile(nodes, p.FSPath, flags, p.FileMode, env), <<>>)

(***************************************************************************)
(* PathSpec: one call of OpenFile or MkdirAll on a Path of the caller.     *)
(***************************************************************************)
\* The paths of the model and, in the words of the caller, the folder each
\* is in.
Folders ==
  (<<47, 100, 47, 101, 47, 102>> :> <<47, 100, 47, 101>>)      \* /d/e/f
    @@ (<<47, 100, 47, 102>> :> <<47, 100>>)                   \* /d/f
    @@ (<<47, 100, 47, 101>> :> <<47, 100>>)                   \* /d/e
    @@ (<<47, 100>> :> <<47>>)                                 \* /d
    @@ (<<47, 102>> :> <<47>>)                                 \* /f
    @@ (<<100, 47, 102>> :> <<100>>)                           \* d/f
    @@ (<<102>> :> <<46>>)                                     \* f

\* The file systems before the call: nothing but / and . ; /d and /d/f;
\* /d, /d/e and /d/e/f; a file where the folder /d would be.
PathWorlds ==
  LET Dir == [kind |-> "dir", mode |-> 493, owner |-> 0, group |-> 0,
              content |-> <<>>]
      File == [kind |-> "file", mode |-> 420, owner |-> 0, group |-> 0,
               content |-> <<Ch.a>>]
      base == (<<47>> :> Dir) @@ (<<46>> :> Dir)
      d == <<47, 100>>
      trees == {base,
                (d :> Dir) @@ (<<47, 100, 47, 102>> :> File) @@ base,
                (d :> Dir) @@ (<<47, 100, 47, 101>> :> Dir)
                  @@ (<<47, 100, 47, 101, 47, 102>> :> File) @@ base,
                (d :> File) @@ base}
  IN {[nodes |-> t, euid |-> u, gid |-> u, umask |-> 18, wraps |-> w] :
        t \in trees, u \in {0, 1000}, w \in BOOLEAN}

\* A Path of the caller at FSPath.
PathsAt(names) ==
  {[AutoChmod |-> m, AutoChown |-> o, AutoCreateParent |-> c,
    DirMode |-> 488, FileMode |-> f, FSPath |-> n, Group |-> 100,
    Owner |-> 1000] : m \in BOOLEAN, o \in BOOLEAN, c \in BOOLEAN, n \in names,
                      f \in {416, 2464}}

\* What the system refuses during a call: nothing, the first or the second
\* directory to make, the opening, the chmod, the chown, or a write (at
\* once, or after one byte).
Denials ==
  LET None == [mkdir |-> 0 - 1, open |-> FALSE, chmod |-> FALSE,
               chown |-> FALSE, write |-> 0 - 1]
  IN {None, [None EXCEPT !.mkdir = 0], [None EXCEPT !.mkdir = 1],
      [None EXCEPT !.open = TRUE], [None EXCEPT !.chmod = TRUE],
      [None EXCEPT !.chown = TRUE], [None EXCEPT !.write = 0],
      [None EXCEPT !.write = 1]}

PathInit ==
  /\ test = NoTest
  /\ world \in PathWorlds
  /\ ups = ZeroCreds
  /\ gen = ZeroSecret
  /\ pc = "idle"
  /\ ret = NoCall

\* The method op of p returns r; before is the file system it found.
PathReturns(op, p, flags, r) ==
  /\ pc' = "returned"
  /\ ret' = [op |-> op, p |-> p, flags |-> flags, before |-> world.nodes,
             calls |-> r.calls, file |-> r.file, err |-> r.err]
  /\ world' = [world EXCEPT !.nodes = r.nodes]
  /\ UNCHANGED <<test, ups, gen>>

PathNext ==
  \/ /\ pc = "idle"
     /\ \E p \in PathsAt(DOMAIN Folders \ {<<47, 100>>}), deny \in Denials,
           flags \in {{}, {"O_CREATE", "O_RDWR", "O_TRUNC"},
                      {"O_CREATE", "O_EXCL", "O_WRONLY"}} :
          PathReturns("Path.OpenFile", p, flags,
                      PathOpenFile(world.nodes, p, flags,
                                   [euid |-> world.euid, gid |-> world.gid,
                                    umask |-> world.umask,
                                    wraps |-> world.wraps, deny |-> deny]))
  \/ /\ pc = "idle"
     /\ \E p \in PathsAt({<<47, 100>>, <<47, 100, 47, 101>>}), deny \in Denials :
          PathReturns("Path.MkdirAll", p, {},
                      [file |-> <<>>]
                        @@ PathMkdirAll(world.nodes, p,
                                        [euid |-> world.euid, gid |-> world.gid,
                                         umask |-> world.umask,
                                         wraps |-> world.wraps, deny |-> deny]))

PathSpec == PathInit /\ [][PathNext]_vars

\* The directories of a file system.
DirsOf(nodes) == {n \in DOMAIN nodes : nodes[n].kind = "dir"}

\* The call in ret is an OpenFile that was to make the parent (or not).
OpenedWith(auto) ==
  ret.op = "Path.OpenFile" /\ ret.p.AutoCreateParent = auto

\* The places in ret.calls of the calls named name.
CallsOf(name) == {i \in 1..Len(ret.calls) : ret.calls[i].call = name}

\* The first call of OpenFile was os.MkdirAll and it failed: no directory
\* stands at the folder afterwards.
ParentFailed ==
  /\ OpenedWith(TRUE)
  /\ ~IsDir(world.nodes, Folders[ret.p.FSPath])

\* C20: with AutoCreateParent, OpenFile calls MkdirAll on the folder of the
\* file, with DirMode, before it opens the file; when the folder cannot
\* be made, the file is neither opened nor created and OpenFile returns an
\* error and a nil handle; without AutoCreateParent no directory is made.
C20_ParentFirst ==
  /\ OpenedWith(TRUE)
       => /\ ret.calls # <<>>
          /\ ret.calls[1] = OsCall("os.MkdirAll", Folders[ret.p.FSPath],
                                   ret.p.DirMode)
          /\ \A i \in CallsOf("os.OpenFile") : i > 1
  /\ ParentFailed
       => /\ CallsOf("os.OpenFile") = {}
          /\ ret.file = <<>>
          /\ ret.err.isErr
          /\ ret.p.FSPath \in DOMAIN world.nodes
               => /\ ret.p.FSPath \in DOMAIN ret.before
                  /\ world.nodes[ret.p.FSPath] = ret.before[ret.p.FSPath]
  /\ OpenedWith(FALSE) => DirsOf(world.nodes) = DirsOf(ret.before)

\* OpenFile made /d and /d/e and then created /d/e/f.
C20_Witness ==
  /\ OpenedWith(TRUE)
  /\ ret.p.FSPath = <<47, 100, 47, 101, 47, 102>>
  /\ ret.before = [n \in {<<47>>, <<46>>} |-> ret.before[n]]
  /\ IsDir(world.nodes, <<47, 100, 47, 101>>)
  /\ world.nodes[<<47, 100, 47, 101>>].mode = 488
  /\ ~ret.err.isErr
  /\ ret.file # <<>>

\* The folder could not be made (a file stands at /d) and nothing was
\* opened.
C20_WitnessFailed ==
  /\ ParentFailed
  /\ <<47, 100>> \in DOMAIN ret.before
  /\ ret.before[<<47, 100>>].kind = "file"
  /\ ret.err.isErr

\* The call in ret is an OpenFile with AutoChmod that returned a handle.
OpenedChmod ==
  /\ ret.op = "Path.OpenFile"
  /\ ret.p.AutoChmod
  /\ ~ret.err.isErr
  /\ ret.file # <<>>

PathWriteError == 6

\* handle.Write(data) on the file at path, opened with flags: with O_APPEND
\* the bytes go to the end, else to the start; env.deny.write is the number
\* of bytes that get written before the system refuses (-1: it does not).
OsWrite(nodes, path, flags, data, env) ==
  LET n == IF env.deny.write < 0 THEN Len(data)
           ELSE Min({env.deny.write, Len(data)})
      old == nodes[path].content
      new == IF "O_APPEND" \in flags THEN old \o SubSeq(data, 1, n)
             ELSE SubSeq(data, 1, n) \o SubSeq(old, n + 1, Len(old))
  IN [nodes |-> [nodes EXCEPT ![path].content = new],
      ok |-> env.deny.write < 0]

\* p.WriteFile(data, overwrite): open is the number of handles that it
\* leaves open.
PathWriteFileNoDefer(nodes, p, data, overwrite, env) ==
  LET flags == {"O_CREATE", "O_RDWR"}
                 \cup (IF overwrite THEN {"O_TRUNC"} ELSE {"O_APPEND"})
      write == OsCall("file.Write", p.FSPath, 0)
      close == OsCall("file.Close", p.FSPath, 0)
      AfterWrite(w, calls) ==
        IF ~w.ok
        THEN [nodes |-> w.nodes, calls |-> calls \o <<write>>, open |-> 1,
              err |-> Wrapf(PathWriteError, {<<"file", p.FSPath>>},
                            PlainErr("file.Write"))]
        ELSE [nodes |-> w.nodes, calls |-> calls \o <<write, close>>,
              open |-> 0, err |-> NilErr]
      Opened(r) ==
        IF r.err.isErr
        THEN [nodes |-> r.nodes, calls |-> r.calls, open |-> Len(r.file),
              err |-> r.err]
        ELSE AfterWrite(OsWrite(r.nodes, p.FSPath, flags, data, env), r.calls)
  IN Opened(PathOpenFile(nodes, p, flags, env))

PathWriteFile(nodes, p, data, overwrite, env) ==
  LET flags == {"O_CREATE", "O_RDWR"}
                 \cup (IF overwrite THEN {"O_TRUNC"} ELSE {"O_APPEND"})
      write == OsCall("file.Write", p.FSPath, 0)
      close == OsCall("file.Close", p.FSPath, 0)
      \* defer handle.Close() runs on both returns
      AfterWrite(w, calls) ==
        [nodes |-> w.nodes, calls |-> calls \o <<write, close>>, open |-> 0,
         err |-> IF w.ok THEN NilErr
                 ELSE Wrapf(PathWriteError, {<<"file", p.FSPath>>},
                            PlainErr("file.Write"))]
      Opened(r) ==
        IF r.err.isErr
        THEN [nodes |-> r.nodes, calls |-> r.calls, open |-> Len(r.file),
              err |-> r.err]
        ELSE AfterWrite(OsWrite(r.nodes, p.FSPath, flags, data, env), r.calls)
  IN Opened(PathOpenFile(nodes, p, flags, env))

\* The most calls that a caller makes.
MaxWrites == 2

WriteInit ==
  /\ test = NoTest
  /\ world \in {w \in PathWorlds : w.euid = 1000 /\ w.wraps}
  /\ ups = ZeroCreds
  /\ gen = ZeroSecret
  /\ pc = "idle"
  /\ ret = NoCall

WriteNext ==
  \/ /\ IF pc = "idle" THEN TRUE ELSE ret.n < MaxWrites
     /\ \E p \in {q \in PathsAt({<<47, 100, 47, 102>>}) :
                    ~q.AutoChown /\ q.FileMode = 416},
           data \in {<<>>, <<Ch.a>>, <<Ch.b>>}, overwrite \in BOOLEAN,
           deny \in Denials \ {d \in Denials : d.mkdir >= 0 \/ d.chown} :
          LET Finishes(r) ==
                /\ pc' = "returned"
                /\ ret' = [op |-> "Path.WriteFile", p |-> p, data |-> data,
                           overwrite |-> overwrite, before |-> world.nodes,
                           calls |-> r.calls, open |-> r.open, err |-> r.err,
                           n |-> IF pc = "idle" THEN 1 ELSE ret.n + 1]
                /\ world' = [world EXCEPT !.nodes = r.nodes]
                /\ UNCHANGED <<test, ups, gen>>
          IN Finishes(PathWriteFile(world.nodes, p, data, overwrite,
                                [euid |-> world.euid, gid |-> world.gid,
                                 umask |-> world.umask, wraps |-> world.wraps,
                                 deny |-> deny]))

WriteSpec == WriteInit /\ [][WriteNext]_vars

\* The content of the file at path in nodes, none when no file is there.
ContentAt(nodes, path) ==
  IF path \in DOMAIN nodes THEN nodes[path].content ELSE <<>>

\* The call in ret is a WriteFile that returned no error.
Wrote(overwrite) ==
  /\ ret.op = "Path.WriteFile"
  /\ ret.overwrite = overwrite
  /\ ~ret.err.isErr

\* C22: in any sequence of WriteFile calls on a path, a call with overwrite
\* that succeeds leaves the file with the data; one without overwrite that
\* succeeds leaves it with what it held before and then the data (the file
\* is created when absent); and no call leaves its handle open, whether it
\* succeeds or the write fails.
C22_WriteFile ==
  /\ Wrote(TRUE) => ContentAt(world.nodes, ret.p.FSPath) = ret.data
  /\ Wrote(FALSE)
       => /\ ret.p.FSPath \in DOMAIN world.nodes
          /\ ContentAt(world.nodes, ret.p.FSPath)
               = ContentAt(ret.before, ret.p.FSPath) \o ret.data
  /\ ret.op = "Path.WriteFile" => ret.open = 0

\* A second call appended b to the a that the first call had written into a
\* file that it created.
C22_Witness ==
  /\ Wrote(FALSE)
  /\ ret.n = 2
  /\ ret.data = <<Ch.b>>
  /\ ContentAt(ret.before, ret.p.FSPath) = <<Ch.a>>
  /\ ContentAt(world.nodes, ret.p.FSPath) = <<Ch.a, Ch.b>>

\* A write failed and the handle was closed.
C22_WitnessWriteError ==
  /\ ret.op = "Path.WriteFile"
  /\ ret.err.isErr
  /\ ret.err.code = PathWriteError
  /\ ret.calls[Len(ret.calls)].call = "file.Close"

\* ---------------------------------------------------------------------------
\* Set: a map from elements to empty structs, behind a reference.
\* ---------------------------------------------------------------------------

\* struct{}{}, the value every element of a Set maps to.
EmptyStruct == <<>>

\* s[v] = struct{}{} on the map s.
SetPut(s, v) == [k \in DOMAIN s \cup {v} |-> EmptyStruct]

\* for _, v := range vals { s[v] = struct{}{} }
SetAdd(s, vals) ==
  LET f[i \in 0..Len(vals)] ==
        IF i = 0 THEN s ELSE SetPut(f[i - 1], vals[i])
  IN f[Len(vals)]

\* NewSet: the loop of Add on the empty map Set[E]{}.
NewSet(vals) == SetAdd([k \in {} |-> EmptyStruct], vals)

\* _, exists := s[val]
SetContains(s, val) == val \in DOMAIN s

\* Every slice the loop "for val := range s { append }" can build: Go leaves
\* the order of a range over a map unspecified.
RECURSIVE RangeOrders(_)
RangeOrders(keys) ==
  IF keys = {} THEN {<<>>}
  ELSE UNION {{<<v>> \o m : m \in RangeOrders(keys \ {v})} : v \in keys}

SetMembers(s) == RangeOrders(DOMAIN s)

\* An Intersection that keeps every element of the receiver.
SetIntersectionAll(heap, a, b, order) ==
  [heap |-> Append(heap, NewSet(order)), result |-> Len(heap) + 1]

\* Intersection on the sets at addresses a and b of heap, ranging over the
\* receiver in the order given: the result is a map of its own, allocated at
\* the next address.
SetIntersection(heap, a, b, order) ==
  LET f[i \in 0..Len(order)] ==
        IF i = 0 THEN NewSet(<<>>)
        ELSE IF SetContains(heap[b], order[i])
             THEN SetAdd(f[i - 1], <<order[i]>>)
             ELSE f[i - 1]
  IN [heap |-> Append(heap, f[Len(order)]), result |-> Len(heap) + 1]

\* Union on the sets at addresses a and b of heap, m1 and m2 being what
\* Members returned for them.
SetUnion(heap, a, b, m1, m2) ==
  [heap |-> Append(heap, SetAdd(NewSet(m1), m2)), result |-> Len(heap) + 1]

\* The elements of the sets and the argument lists of NewSet and Add.
Elements == {"x", "y", "z"}

MaxSets == 3

MaxVals == 1

ValLists == UNION {[1..n -> Elements] : n \in 0..MaxVals}

SetInit ==
  /\ test = NoTest
  /\ world \in {[heap |-> <<NewSet(vals)>>] : vals \in ValLists}
  /\ ups = ZeroCreds
  /\ gen = ZeroSecret
  /\ pc = "idle"
  /\ ret = NoCall

\* A call on the set at s (and s2) returns result and leaves the heap as given.
SetReturns(op, s, s2, vals, heap, result) ==
  /\ pc' = "returned"
  /\ ret' = [op |-> op, s |-> s, s2 |-> s2, vals |-> vals,
             before |-> world.heap, result |-> result]
  /\ world' = [heap |-> heap]
  /\ UNCHANGED <<test, ups, gen>>

SetNext ==
  \/ /\ Len(world.heap) < MaxSets
     /\ \E vals \in ValLists :
          SetReturns("NewSet", 0, 0, vals, Append(world.heap, NewSet(vals)),
                     Len(world.heap) + 1)
  \/ /\ pc \in {"idle", "returned"}
     /\ \E s \in DOMAIN world.heap, vals \in ValLists :
          SetReturns("Set.Add", s, 0, vals,
                     [world.heap EXCEPT ![s] = SetAdd(world.heap[s], vals)], 0)
  \/ /\ pc \in {"idle", "returned"}
     /\ \E s \in DOMAIN world.heap, v \in Elements :
          SetReturns("Set.Contains", s, 0, <<v>>, world.heap,
                     SetContains(world.heap[s], v))
  \/ /\ pc \in {"idle", "returned"}
     /\ \E s \in DOMAIN world.heap :
          \E m \in SetMembers(world.heap[s]) :
             SetReturns("Set.Members", s, 0, <<>>, world.heap, m)
  \/ /\ Len(world.heap) < MaxSets
     /\ \E s \in DOMAIN world.heap, s2 \in DOMAIN world.heap :
          \E order \in SetMembers(world.heap[s]) :
             LET Allocated(r) ==
                   SetReturns("Set.Intersection", s, s2, <<>>, r.heap, r.result)
             IN Allocated(SetIntersection(world.heap, s, s2, order))
  \/ /\ Len(world.heap) < MaxSets
     /\ \E s \in DOMAIN world.heap, s2 \in DOMAIN world.heap :
          \E m1 \in SetMembers(world.heap[s]), m2 \in SetMembers(world.heap[s2]) :
             LET Allocated(r) ==
                   SetReturns("Set.Union", s, s2, <<>>, r.heap, r.result)
             IN Allocated(SetUnion(world.heap, s, s2, m1, m2))

SetSpec == SetInit /\ [][SetNext]_vars

\* The elements of the set at address a of heap.
ElementsAt(heap, a) == DOMAIN heap[a]

\* The elements of a slice.
ElementsOf(slice) == {slice[i] : i \in DOMAIN slice}

\* Every set that existed before the call in ret holds what it held.
OperandsUnchanged == \A a \in DOMAIN ret.before : world.heap[a] = ret.before[a]

\* The call in ret returned a set of its own holding exactly elems.
ReturnedNewSet(elems) ==
  /\ ret.result \notin DOMAIN ret.before
  /\ ret.result \in DOMAIN world.heap
  /\ ElementsAt(world.heap, ret.result) = elems
  /\ OperandsUnchanged

\* C23: over any sequence of NewSet and Add calls the Set operations are the
\* mathematical ones: after Add(v) the set contains v and an Add of elements
\* already there changes nothing; Contains answers membership; Intersection
\* and Union return a new set holding exactly the elements in both, or in
\* either, and leave both operands as they were; Members returns each element
\* exactly once.
C23_SetOperations ==
  /\ ret.op = "NewSet" =>
       ReturnedNewSet(ElementsOf(ret.vals))
  /\ ret.op = "Set.Add" =>
       /\ \A v \in ElementsOf(ret.vals) : SetContains(world.heap[ret.s], v)
       /\ ElementsAt(world.heap, ret.s) =
            ElementsAt(ret.before, ret.s) \cup ElementsOf(ret.vals)
       /\ ElementsOf(ret.vals) \subseteq ElementsAt(ret.before, ret.s) =>
            world.heap = ret.before
       /\ \A a \in DOMAIN ret.before \ {ret.s} : world.heap[a] = ret.before[a]
  /\ ret.op = "Set.Contains" =>
       /\ ret.result = (ret.vals[1] \in ElementsAt(ret.before, ret.s))
       /\ world.heap = ret.before
  /\ ret.op = "Set.Intersection" =>
       ReturnedNewSet(ElementsAt(ret.before, ret.s)
                        \cap ElementsAt(ret.before, ret.s2))
  /\ ret.op = "Set.Union" =>
       ReturnedNewSet(ElementsAt(ret.before, ret.s)
                        \cup ElementsAt(ret.before, ret.s2))
  /\ ret.op = "Set.Members" =>
       /\ ElementsOf(ret.result) = ElementsAt(ret.before, ret.s)
       /\ Len(ret.result) = Cardinality(ElementsAt(ret.before, ret.s))
       /\ world.heap = ret.before

\* An Intersection of two sets that overlap without either holding the
\* other, after Add calls built them.
C23_Witness ==
  /\ ret.op = "Set.Intersection"
  /\ ret.s # ret.s2
  /\ ElementsAt(ret.before, ret.s) = {"x", "y"}
  /\ ElementsAt(ret.before, ret.s2) = {"y", "z"}
  /\ ElementsAt(world.heap, ret.result) = {"y"}

\* A Union of two such sets.
C23_WitnessUnion ==
  /\ ret.op = "Set.Union"
  /\ ret.s # ret.s2
  /\ ElementsAt(ret.before, ret.s) = {"x", "y"}
  /\ ElementsAt(ret.before, ret.s2) = {"y", "z"}
  /\ ElementsAt(world.heap, ret.result) = Elements

\* Whether input is one of schemes followed by "://" and anything.
BeginsWithScheme(input, schemes) ==
  \E k \in DOMAIN schemes : HasPrefix(input, schemes[k] \o SchemeSep)

\* C24: UnsupportedSecretProtocolError is kept for schemes the resolver does
\* not know: an input that begins with one of the resolver's schemes and
\* "://" never fails with it, whatever follows, and raw://, base64://, env://
\* and file:// with nothing after them fail in the credential resolver with
\* ParseSecretError.
C24_ReservedForSchemes ==
  /\ Returned("ParseUsernamePasswordSecret")
       /\ BeginsWithScheme(ret.input, UsernamePasswordSchemes)
       => ret.err.code # UnsupportedSecretProtocolError
  /\ Returned("ParseGenericSecret")
       /\ BeginsWithScheme(ret.input, GenericSchemes)
       => ret.err.code # UnsupportedSecretProtocolError
  /\ Returned("ParseUsernamePasswordSecret")
       /\ ret.input \in {URL(s, <<>>) : s \in {Scheme.raw, Scheme.base64,
                                                Scheme.env, Scheme.file}}
       => ret.err.code = ParseSecretError

(***************************************************************************)
(* Duration and FileMode as text and as JSON                               *)
(***************************************************************************)

\* d / k and d % k for a k below 1000: the long division, r[i] being what
\* is left of the i highest digits.
DivSmall(d, k) ==
  LET n == Len(d)
      r[i \in 0..n] == IF i = 0 THEN 0 ELSE (r[i - 1] * 10 + d[i]) % k
  IN [quot |-> Norm([i \in 1..n |-> (r[i - 1] * 10 + d[i]) \div k]),
      rem |-> r[n]]

\* time's fmtInt: the decimal digits of v, "0" for 0.
FmtInt(v) ==
  IF v = <<>> THEN <<Ch.zero>> ELSE [i \in 1..Len(v) |-> v[i] + Ch.zero]

\* time's fmtFrac: the fraction of v / 10^prec without the zeros at its end,
\* after a '.' unless nothing is left of it, and v / 10^prec.
FmtFrac(v, prec) ==
  LET low == [i \in 1..prec |->
                IF Len(v) - prec + i >= 1 THEN v[Len(v) - prec + i] ELSE 0]
      nz == {i \in 1..prec : low[i] # 0}
  IN [frac |-> IF nz = {} THEN <<>>
               ELSE <<Ch.dot>> \o [i \in 1..Max(nz) |-> low[i] + Ch.zero],
      int |-> IF Len(v) <= prec THEN <<>> ELSE SubSeq(v, 1, Len(v) - prec)]

\* time.Duration(d).String(): below a second in ns, µs or ms, otherwise hours,
\* minutes and seconds, the hours and the minutes left out while they lead
\* with 0.
DurationString(d) ==
  LET u == d.mag
      Sub(unit, prec) ==
        FmtInt(FmtFrac(u, prec).int) \o FmtFrac(u, prec).frac \o unit
      sec == FmtFrac(u, 9)
      min == DivSmall(sec.int, 60)
      hour == DivSmall(min.quot, 60)
      Small(k) == Norm(<<k \div 10, k % 10>>)
      text ==
        IF u = <<>> THEN <<Ch.zero, 115>>
        ELSE IF Len(u) <= 3 THEN Sub(<<110, 115>>, 0)
        ELSE IF Len(u) <= 6 THEN Sub(<<194, 181, 115>>, 3)
        ELSE IF Len(u) <= 9 THEN Sub(<<109, 115>>, 6)
        ELSE (IF hour.quot # <<>> THEN FmtInt(hour.quot) \o <<104>> ELSE <<>>)
               \o (IF min.quot # <<>> THEN FmtInt(Small(hour.rem)) \o <<109>>
                   ELSE <<>>)
               \o FmtInt(Small(min.rem)) \o sec.frac \o <<115>>
  IN (IF d.neg THEN <<Ch.minus>> ELSE <<>>) \o text

\* Duration.MarshalText and Duration.MarshalJSON: json.Marshal(d.String()).
DurationMarshalText(d) ==
  [text |-> MarshalString(DurationString(d)), err |-> NilErr]

\* Duration.UnmarshalText on the receiver that holds recv: what it holds
\* afterwards, and the error.
DurationUnmarshalText(data, recv) ==
  LET Parsed(r) == [recv |-> IF r.ok THEN r.val ELSE recv, err |-> r.err]
  IN Parsed(ParseDuration(data))

\* fmt.Sprintf("%#o", m) for a mode from 0 to 0o77777: the octal digits after
\* a 0, and "0" alone for 0.
FileModeString(m) ==
  IF m = 0 THEN <<Ch.zero>> ELSE <<Ch.zero>> \o FormatOctal(m)

\* FileMode.MarshalText: []byte(fmt.Sprintf("%#o", m)).
FileModeMarshalText(m) == [text |-> FileModeString(m), err |-> NilErr]

\* FileMode.MarshalJSON: json.Marshal(fmt.Sprintf("%#o", m)).
FileModeMarshalJSON(m) ==
  [text |-> MarshalString(FileModeString(m)), err |-> NilErr]

\* strconv.ParseInt(s, 10, 16): the number of ParseInt when an int16 holds
\* it.
ParseInt16(s) ==
  LET Sized(r) ==
        LET num[i \in 0..Len(r.val.mag)] ==
              IF i = 0 THEN 0 ELSE num[i - 1] * 10 + r.val.mag[i]
        IN IF ~r.ok \/ Len(r.val.mag) > 5 THEN [ok |-> FALSE, val |-> 0]
           ELSE IF num[Len(r.val.mag)] > (IF r.val.neg THEN 32768 ELSE 32767)
             THEN [ok |-> FALSE, val |-> 0]
           ELSE [ok |-> TRUE,
                 val |-> IF r.val.neg THEN 0 - num[Len(r.val.mag)]
                         ELSE num[Len(r.val.mag)]]
  IN Sized(ParseInt(s))

\* FileMode.UnmarshalText on the receiver that holds recv: the text is read
\* in base 10.
FileModeUnmarshalText(data, recv) ==
  LET Parsed(r) ==
        IF r.ok THEN [recv |-> r.val, err |-> NilErr]
        ELSE [recv |-> recv, err |-> PlainErr("strconv.ParseInt")]
  IN Parsed(ParseInt16(data))

\* FileMode.UnmarshalJSON, doc being the document that data holds:
\* json.Unmarshal(data, &mode) for an int16 stores a number that an int16
\* holds, leaves mode 0 at null and fails on anything else.
FileModeUnmarshalJSON(doc, data, recv) ==
  LET Stored(r) ==
        IF r.ok THEN [recv |-> r.val, err |-> NilErr]
        ELSE [recv |-> recv, err |-> PlainErr(JsonTypeError)]
  IN IF ~doc.ok THEN [recv |-> recv, err |-> PlainErr(JsonSyntaxError)]
     ELSE IF doc.kind = "null" THEN [recv |-> 0, err |-> NilErr]
     ELSE IF doc.kind # "number"
       THEN [recv |-> recv, err |-> PlainErr(JsonTypeError)]
     ELSE Stored(ParseInt16(SubSeq(data, SkipWS(data, 1), doc.next - 1)))

(***************************************************************************)
(* RoundTripSpec: a value is marshalled, and what came out is unmarshalled *)
(* into a receiver.                                                        *)
(***************************************************************************)
\* The durations marshalled: 0, 1ns, 1.5µs, 2ms, 1s, 1m30s, 1h, 1h30m0.5s,
\* the largest and the smallest, and some of them below 0.
Durations ==
  LET mags == {<<>>, <<1>>, <<1, 5, 0, 0>>, <<2, 0, 0, 0, 0, 0, 0>>,
               <<1, 0, 0, 0, 0, 0, 0, 0, 0, 0>>,
               <<9, 0, 0, 0, 0, 0, 0, 0, 0, 0, 0>>,
               <<3, 6, 0, 0, 0, 0, 0, 0, 0, 0, 0, 0, 0>>,
               <<5, 4, 0, 0, 5, 0, 0, 0, 0, 0, 0, 0, 0>>,
               Minus(TwoTo63, <<1>>)}
  IN {Int64(FALSE, m) : m \in mags}
       \cup {Int64(TRUE, m) : m \in mags \cup {TwoTo63}}

\* The largest mode marshalled, 0o7777.
MaxFileMode == 4095

RoundTripInit ==
  /\ test = NoTest
  /\ world = EmptyWorld
  /\ ups = ZeroCreds
  /\ gen = ZeroSecret
  /\ pc = "idle"
  /\ ret = NoCall

\* A Marshal method returned r for the value v.
Marshals(op, v, r) ==
  /\ pc' = "marshalled"
  /\ ret' = [op |-> op, of |-> v, text |-> r.text, err |-> r.err]
  /\ UNCHANGED <<test, world, ups, gen>>

\* An Unmarshal method returned r for the text in ret, called on a receiver
\* that held recv.
UnmarshalsText(op, recv, r) ==
  /\ pc' = "returned"
  /\ ret' = [op |-> op, of |-> ret.of, text |-> ret.text, recv |-> recv,
             val |-> r.recv, err |-> r.err]
  /\ UNCHANGED <<test, world, ups, gen>>

RoundTripNext ==
  \/ /\ pc = "idle"
     /\ \E d \in Durations :
          Marshals("Duration.MarshalText", d, DurationMarshalText(d))
  \/ /\ ret.op = "Duration.MarshalText"
     /\ \E recv \in {Int64(FALSE, <<>>), Int64(FALSE, <<7>>)} :
          UnmarshalsText("Duration.UnmarshalText", recv,
                         DurationUnmarshalText(ret.text, recv))
  \/ /\ pc = "idle"
     /\ \E m \in 0..MaxFileMode :
          Marshals("FileMode.MarshalText", m, FileModeMarshalText(m))
  \/ /\ ret.op = "FileMode.MarshalText"
     /\ \E recv \in {0, 493} :
          UnmarshalsText("FileMode.UnmarshalText", recv,
                         FileModeUnmarshalText(ret.text, recv))
  \/ /\ pc = "idle"
     /\ \E m \in 0..MaxFileMode :
          Marshals("FileMode.MarshalJSON", m, FileModeMarshalJSON(m))
  \/ /\ ret.op = "FileMode.MarshalJSON"
     /\ \E recv \in {0, 493} :
          UnmarshalsText("FileMode.UnmarshalJSON", recv,
                         FileModeUnmarshalJSON(JsonParse(ret.text), ret.text,
                                               recv))

RoundTripSpec == RoundTripInit /\ [][RoundTripNext]_vars

\* C25: Duration.MarshalText returns the characters of d.String() and no
\* quotes around them, and UnmarshalText of what it returned succeeds and
\* stores d.
C25_DurationTextRoundTrip ==
  /\ ret.op = "Duration.MarshalText"
       => ~ret.err.isErr /\ ret.text = DurationString(ret.of)
  /\ ret.op = "Duration.UnmarshalText"
       => ~ret.err.isErr /\ ret.val = ret.of

\* The number that the characters of s spell in base 8 (-1: not all of them
\* are octal digits).
OctalValue(s) ==
  LET oct[i \in 0..Len(s)] ==
        IF i = 0 THEN 0 ELSE oct[i - 1] * 8 + (s[i] - Ch.zero)
  IN IF PrefixIn(s, Ch.zero..55) = Len(s) THEN oct[Len(s)] ELSE 0 - 1

\* C29: for every mode m from 0 to 0o7777, MarshalText returns the octal
\* digits of m after a 0, MarshalJSON the same as a JSON string, and
\* UnmarshalText and UnmarshalJSON of what they returned succeed and store m.
C29_FileModeRoundTrip ==
  /\ ret.op = "FileMode.MarshalText"
       => /\ ~ret.err.isErr
          /\ ret.text[1] = Ch.zero /\ OctalValue(ret.text) = ret.of
  /\ ret.op = "FileMode.MarshalJSON"
       => /\ ~ret.err.isErr
          /\ ret.text[1] = Ch.quote /\ ret.text[2] = Ch.zero
          /\ OctalValue(SubSeq(ret.text, 2, Len(ret.text) - 1)) = ret.of
  /\ ret.op \in {"FileMode.UnmarshalText", "FileMode.UnmarshalJSON"}
       => ~ret.err.isErr /\ ret.val = ret.of

(***************************************************************************)
(* Size, and the UnmarshalJSON of Duration                                 *)
(***************************************************************************)

\* The float64 that is neg digits / 10^scale, written in decimal: the digits
\* of its integer part, and those of its fraction without the zeros at its
\* end.  (The inputs keep to numbers on which float64 arithmetic is exact.)
Decimal(neg, digits, scale) ==
  LET Zeros(n) == [i \in 1..n |-> 0]
      padded == IF Len(digits) < scale
                THEN Zeros(scale - Len(digits)) \o digits ELSE digits
      low == IF scale <= 0 THEN <<>>
             ELSE SubSeq(padded, Len(padded) - scale + 1, Len(padded))
      nz == {i \in 1..Len(low) : low[i] # 0}
      int == IF scale <= 0 THEN Norm(digits \o Zeros(0 - scale))
             ELSE Norm(SubSeq(padded, 1, Len(padded) - scale))
      frac == IF nz = {} THEN <<>> ELSE SubSeq(low, 1, Max(nz))
  IN [neg |-> neg /\ (int # <<>> \/ frac # <<>>), int |-> int, frac |-> frac]

\* The suffixes of a size: the powers of 1000 and of 1024 in each.
SizeUnits ==
  LET Both(k, n) == (<<k>> :> <<n, 0>>) @@ (<<k, 98>> :> <<n, 0>>)
                      @@ (<<k, 105, 98>> :> <<0, n>>)
  IN (<<98>> :> <<0, 0>>) @@ (<<98, 121, 116, 101, 115>> :> <<0, 0>>)
       @@ Both(107, 1) @@ Both(109, 2) @@ Both(103, 3) @@ Both(116, 4)
       @@ Both(112, 5)

\* ParseSize(size): "" is 0; a number and a suffix (any case, white space
\* between them allowed) is the number times the suffix's unit; anything else
\* is an int64 of bytes or an error.  The checks against math.MaxFloat64 never
\* fail on a number of fewer than 290 digits.
ParseSize(size) ==
  LET n == PrefixIn(size, Digits \cup {Ch.dot})
      num == SubSeq(size, 1, n)
      rest == SubSeq(size, n + 1, Len(size))
      sfx == ToLower(SubSeq(rest, PrefixIn(rest, WhiteSpace \ {Ch.vt}) + 1,
                            Len(rest)))
      dots == {i \in 1..n : num[i] = Ch.dot}
      matches == Cardinality(dots) <= 1 /\ n > Cardinality(dots)
                   /\ sfx \in DOMAIN SizeUnits
      int == IF dots = {} THEN num ELSE SubSeq(num, 1, Min(dots) - 1)
      frac == IF dots = {} THEN <<>> ELSE SubSeq(num, Min(dots) + 1, n)
      kibi[i \in 0..5] ==
        IF i = 0 THEN Value(int \o frac) ELSE Times(kibi[i - 1], 1024)
      Fail == [ok |-> FALSE, val |-> Decimal(FALSE, <<>>, 0),
               err |-> PlainErr("strconv.ParseInt")]
      Ok(v) == [ok |-> TRUE, val |-> v, err |-> NilErr]
      Whole(r) == IF r.ok THEN Ok(Decimal(r.val.neg, r.val.mag, 0)) ELSE Fail
  IN IF size = <<>> THEN Ok(Decimal(FALSE, <<>>, 0))
     ELSE IF ~matches THEN Whole(ParseInt(size))
     ELSE Ok(Decimal(FALSE, kibi[SizeUnits[sfx][2]],
                     Len(frac) - 3 * SizeUnits[sfx][1]))

\* Size.UnmarshalText on the receiver that holds recv.
SizeUnmarshalText(data, recv) ==
  LET Parsed(r) == [recv |-> IF r.ok THEN r.val ELSE recv, err |-> r.err]
  IN Parsed(ParseSize(data))

\* The float64 of a JSON number: -? digits (. digits)? (e [+-]? digits)?
JsonFloat(lit) ==
  LET neg == lit[1] = Ch.minus
      body == IF neg THEN Tail(lit) ELSE lit
      ni == PrefixIn(body, Digits)
      afterInt == SubSeq(body, ni + 1, Len(body))
      hasFrac == afterInt # <<>> /\ afterInt[1] = Ch.dot
      nf == IF hasFrac THEN PrefixIn(Tail(afterInt), Digits) ELSE 0
      frac == IF hasFrac THEN SubSeq(afterInt, 2, nf + 1) ELSE <<>>
      afterFrac == SubSeq(afterInt, IF hasFrac THEN nf + 2 ELSE 1, Len(afterInt))
      exp == IF afterFrac = <<>> THEN 0 ELSE ParseInt16(Tail(afterFrac)).val
  IN Decimal(neg, Value(SubSeq(body, 1, ni) \o frac), Len(frac) - exp)

\* A Size.UnmarshalJSON that clears the receiver before it decodes.
SizeUnmarshalJSONCleared(doc, data, recv) ==
  LET Fail(cause) == [recv |-> Decimal(FALSE, <<>>, 0), err |-> PlainErr(cause)]
  IN IF ~doc.ok THEN Fail(JsonSyntaxError)
     ELSE IF doc.kind = "number"
       THEN [recv |-> JsonFloat(SubSeq(data, SkipWS(data, 1), doc.next - 1)),
             err |-> NilErr]
     ELSE IF doc.kind = "null"
       THEN [recv |-> Decimal(FALSE, <<>>, 0), err |-> NilErr]
     ELSE IF doc.kind # "string" THEN Fail(JsonTypeError)
     ELSE SizeUnmarshalText(doc.str, Decimal(FALSE, <<>>, 0))

\* Size.UnmarshalJSON, doc being the document that data holds:
\* json.Unmarshal(data, &fval64) stores a number, leaves fval64 0 at null
\* and fails on anything else; json.Unmarshal(data, &sval) then stores a
\* string only.
SizeUnmarshalJSON(doc, data, recv) ==
  LET Fail(cause) == [recv |-> recv, err |-> PlainErr(cause)]
  IN IF ~doc.ok THEN Fail(JsonSyntaxError)
     ELSE IF doc.kind = "number"
       THEN [recv |-> JsonFloat(SubSeq(data, SkipWS(data, 1), doc.next - 1)),
             err |-> NilErr]
     ELSE IF doc.kind = "null"
       THEN [recv |-> Decimal(FALSE, <<>>, 0), err |-> NilErr]
     ELSE IF doc.kind # "string" THEN Fail(JsonTypeError)
     ELSE SizeUnmarshalText(doc.str, recv)

\* Duration.UnmarshalJSON, doc being the document that data holds:
\* json.Unmarshal(data, &ival64) stores a number that an int64 holds, leaves
\* ival64 0 at null and fails on anything else; json.Unmarshal(data, &sval)
\* then stores a string only.
DurationUnmarshalJSON(doc, data, recv) ==
  LET Fail(cause) == [recv |-> recv, err |-> PlainErr(cause)]
      Number(r) == IF r.ok THEN [recv |-> r.val, err |-> NilErr]
                   ELSE Fail(JsonTypeError)
  IN IF ~doc.ok THEN Fail(JsonSyntaxError)
     ELSE IF doc.kind = "number"
       THEN Number(ParseInt(SubSeq(data, SkipWS(data, 1), doc.next - 1)))
     ELSE IF doc.kind = "null"
       THEN [recv |-> Int64(FALSE, <<>>), err |-> NilErr]
     ELSE IF doc.kind # "string" THEN Fail(JsonTypeError)
     ELSE DurationUnmarshalText(doc.str, recv)

(***************************************************************************)
(* UnmarshalSpec: one UnmarshalText or UnmarshalJSON call on a receiver of *)
(* each of the seven types.  world holds what the secrets read and what    *)
(* the account database answers.                                           *)
(***************************************************************************)
Quoted(texts) == {<<Ch.quote>> \o s \o <<Ch.quote>> : s \in texts}

\* Documents that are neither a number nor a string, and one cut short.
OtherDocuments ==
  {<<110, 117, 108, 108>>, <<116, 114, 117, 101>>, <<91, 49, 93>>,
   <<Ch.quote>>}

\* The durations of at most two characters, and those with a number at the
\* edge of the int64 range.
DurationTexts == {d \in DurationInputs : Len(d) <= 2 \/ Len(d) >= 19}

DurationDocuments ==
  DurationTexts \cup Quoted(DurationTexts) \cup OtherDocuments

SizeTexts ==
  LET D(s) == [i \in 1..Len(s) |-> s[i] + Ch.zero]
      Numbers == {<<>>, <<53>>, <<49, 53>>, <<49, 46, 53>>, <<46, 53>>,
                  <<53, 46>>, <<46>>, <<45, 53>>, <<120>>, D(TwoTo63),
                  <<49, 101, 51>>, <<50, 46, 53, 101, 45, 49>>}
      Suffixes == {<<>>, <<98>>, <<75, 66>>, <<107, 105, 98>>,
                   <<32, 109, 98>>, <<80, 105, 66>>, <<113>>,
                   <<98, 121, 116, 101, 115>>, <<11, 107>>}
  IN {n \o s : n \in Numbers, s \in Suffixes}

SizeDocuments == SizeTexts \cup Quoted(SizeTexts) \cup OtherDocuments

FileModeTexts ==
  StrUpTo(Digits, MaxDigits)
    \cup {<<48, 54, 52, 52>>, <<51, 50, 55, 54, 55>>, <<51, 50, 55, 54, 56>>,
          <<45, 51, 50, 55, 54, 56>>, <<45, 51, 50, 55, 54, 57>>, <<120>>,
          <<43, 53>>, <<49, 101, 51>>, <<49, 46, 53>>, <<48, 120, 49>>}

FileModeDocuments ==
  FileModeTexts \cup Quoted(FileModeTexts) \cup OtherDocuments

UnmarshalInit ==
  /\ test \in SpecTests
  /\ world \in {WorldOf(test) @@ a :
                  a \in {b \in AccountWorlds :
                           \/ test = NoTest
                           \/ b.users = <<>> /\ b.uid = Int64(FALSE, <<>>)}}
  /\ \E held \in BOOLEAN :
       /\ ups = IF held THEN SomeCreds ELSE ZeroCreds
       /\ gen = IF held THEN SomeSecret ELSE ZeroSecret
  /\ pc = "idle"
  /\ ret = NoCall

UnmarshalNext ==
  \/ CallUsernamePasswordUnmarshalText(Inputs)
  \/ CallUsernamePasswordUnmarshalJSON(JsonInputs)
  \/ CallGenericUnmarshalText(Inputs)
  \/ CallGenericUnmarshalJSON(JsonInputs)
  \/ AccountNext
  \/ /\ pc = "idle"
     /\ \E data \in DurationTexts,
           recv \in {Int64(FALSE, <<>>), Int64(FALSE, <<7>>)} :
          UnmarshalsID("Duration.UnmarshalText", data, recv,
                       DurationUnmarshalText(data, recv))
  \/ /\ pc = "idle"
     /\ \E data \in DurationDocuments,
           recv \in {Int64(FALSE, <<>>), Int64(FALSE, <<7>>)} :
          UnmarshalsID("Duration.UnmarshalJSON", data, recv,
                       DurationUnmarshalJSON(JsonParse(data), data, recv))
  \/ /\ pc = "idle"
     /\ \E data \in SizeTexts,
           recv \in {Decimal(FALSE, <<>>, 0), Decimal(FALSE, <<1, 5>>, 1)} :
          UnmarshalsID("Size.UnmarshalText", data, recv,
                       SizeUnmarshalText(data, recv))
  \/ /\ pc = "idle"
     /\ \E data \in SizeDocuments,
           recv \in {Decimal(FALSE, <<>>, 0), Decimal(FALSE, <<1, 5>>, 1)} :
          UnmarshalsID("Size.UnmarshalJSON", data, recv,
                       SizeUnmarshalJSON(JsonParse(data), data, recv))
  \/ /\ pc = "idle"
     /\ \E data \in FileModeTexts, recv \in {0, 493} :
          UnmarshalsID("FileMode.UnmarshalText", data, recv,
                       FileModeUnmarshalText(data, recv))
  \/ /\ pc = "idle"
     /\ \E data \in FileModeDocuments, recv \in {0, 493} :
          UnmarshalsID("FileMode.UnmarshalJSON", data, recv,
                       FileModeUnmarshalJSON(JsonParse(data), data, recv))

UnmarshalSpec == UnmarshalInit /\ [][UnmarshalNext]_vars

\* The Unmarshal methods of the seven types.
UnmarshalOps ==
  {type \o method :
     type \in {"UsernamePasswordSecret", "GenericSecret", "Duration", "Size",
               "FileMode", "UserID", "GroupID"},
     method \in {".UnmarshalText", ".UnmarshalJSON"}}

\* The call in ret is a method of UnmarshalOps that returned an error.
UnmarshalFailed ==
  /\ pc = "returned"
  /\ ret.op \in UnmarshalOps
  /\ ret.err.isErr

\* C26: an UnmarshalText or UnmarshalJSON of UsernamePasswordSecret,
\* GenericSecret, Duration, Size, FileMode, UserID or GroupID that returns
\* an error leaves its receiver holding what it held before the call.
C26_FailedUnmarshalKeeps ==
  UnmarshalFailed =>
    /\ ret.val = ret.recv
    /\ ret.op \in {"UsernamePasswordSecret.UnmarshalText",
                   "UsernamePasswordSecret.UnmarshalJSON"} => ups = ret.recv
    /\ ret.op \in {"GenericSecret.UnmarshalText",
                   "GenericSecret.UnmarshalJSON"} => gen = ret.recv

\* Size.UnmarshalJSON failed on the string "5q", called on a receiver that
\* held 1.5 bytes.
C26_Witness ==
  /\ UnmarshalFailed
  /\ ret.op = "Size.UnmarshalJSON"
  /\ ret.input = <<Ch.quote, 53, 113, Ch.quote>>
  /\ ret.recv = Decimal(FALSE, <<1, 5>>, 1)
  /\ ret.val = ret.recv

\* UsernamePasswordSecret.UnmarshalJSON failed on an object with a badly
\* typed password, called on a receiver that held credentials.
C26_WitnessSecret ==
  /\ UnmarshalFailed
  /\ ret.op = "UsernamePasswordSecret.UnmarshalJSON"
  /\ ret.input[1] = Ch.lbrace
  /\ ret.recv = SomeCreds
  /\ ups = SomeCreds

(***************************************************************************)
(* PartialSpec: the resolvers against worlds whose file, variables and     *)
(* stored secret hold credentials with one field malformed.                *)
(***************************************************************************)
\* Documents with the two fields of the credentials, one of them malformed:
\* a password or a username that is a number, a password that is no base64,
\* a document cut short after the username; and one that is well formed.
MalformedDocuments ==
  LET Doc(u, p) == <<Ch.lbrace>> \o MarshalString(KeyUsername) \o <<Ch.colon>>
                     \o u \o <<Ch.comma>> \o MarshalString(KeyPassword)
                     \o <<Ch.colon>> \o p \o <<Ch.rbrace>>
      a == MarshalString(EncodeToString(<<Ch.a>>))
  IN {Doc(a, <<53>>), Doc(<<53>>, a), Doc(a, MarshalString(<<Ch.bang>>)),
      SubSeq(Doc(a, a), 1, Len(Doc(a, <<>>)) - 1), Doc(a, a)}

\* A world that holds doc in a file and in the store, and in its variables a
\* username in base64 with a password that is none.
MalformedWorld(doc) ==
  World((Name.username_b64 :> EncodeToString(<<Ch.a>>))
          @@ (Name.password_b64 :> <<Ch.bang>>),
        (Name.file :> doc) @@ (Name.file_b64 :> doc),
        (Name.aws :> StoredString(doc)))

MalformedURLs ==
  {URL(Scheme.file, Name.file), URL(Scheme.filebase64, Name.file_b64),
   URL(Scheme.awssecret, Name.aws),
   URL(Scheme.envbase64, Pair(Name.username_b64, Name.password_b64)),
   URL(Scheme.envbase64, Name.password_b64),
   URL(Scheme.env, Pair(Name.username_b64, Name.nofile))}

PartialInit ==
  /\ test = NoTest
  /\ world \in {MalformedWorld(doc) : doc \in MalformedDocuments}
  /\ ups = ZeroCreds
  /\ gen = ZeroSecret
  /\ pc = "idle"
  /\ ret = NoCall

PartialNext ==
  \/ CallParseUsernamePasswordSecret(Inputs \cup MalformedURLs)
  \/ CallParseGenericSecret(Inputs \cup MalformedURLs)

PartialSpec == PartialInit /\ [][PartialNext]_vars

\* C27: whenever ParseUsernamePasswordSecret or ParseGenericSecret returns an
\* error, the secret it returns with it is the zero value, also when what was
\* read is structured content with only one field malformed.
C27_ZeroOnError ==
  /\ Returned("ParseUsernamePasswordSecret") /\ ret.err.isErr
       => ret.val = ZeroCreds
  /\ Returned("ParseGenericSecret") /\ ret.err.isErr
       => ret.val = ZeroSecret

\* The credential resolver failed on a file whose username is well formed
\* and whose password is a number, and returned no credentials.
C27_Witness ==
  /\ Returned("ParseUsernamePasswordSecret")
  /\ ret.input = URL(Scheme.file, Name.file)
  /\ JsonParse(world.files[Name.file]).ok
  /\ ret.err.code = ParseSecretError
  /\ ret.err.cause = JsonTypeError
  /\ ret.val = ZeroCreds

\* The credential resolver failed on variables of which only the password is
\* no base64.
C27_WitnessEnv ==
  /\ Returned("ParseUsernamePasswordSecret")
  /\ ret.input = URL(Scheme.envbase64, Pair(Name.username_b64, Name.password_b64))
  /\ ret.err.isErr
  /\ ret.val = ZeroCreds

\* The call in ret was given an int64, with or without a sign, and then sfx.
Int64With(sfx) ==
  /\ ret.op = "ParseDuration"
  /\ Len(ret.input) > Len(sfx)
  /\ SubSeq(ret.input, Len(ret.input) - Len(sfx) + 1, Len(ret.input)) = sfx
  /\ ParseInt(SubSeq(ret.input, 1, Len(ret.input) - Len(sfx))).ok

\* What the call in ret returned is the number before sfx times hours, in
\* nanoseconds, and an int64 holds that product.
ReturnsProduct(sfx, hours) ==
  LET n == ParseInt(SubSeq(ret.input, 1, Len(ret.input) - Len(sfx))).val
      h == Times(n.mag, hours)
      ns == IF h = <<>> THEN <<>> ELSE Times(h, 36) \o [i \in 1..11 |-> 0]
  IN /\ IF n.neg THEN Leq(ns, TwoTo63) ELSE ~Leq(TwoTo63, ns)
     /\ ret.val = Int64(n.neg, ns)

\* C28: ParseDuration never returns a wrapped value: for every int64 N, above
\* or below 0, before mo, w, d or y, it returns N times the length of the
\* period or an error, and never a duration when the product is outside the
\* int64 range of nanoseconds.
C28_NoSilentWrap ==
  /\ Int64With(<<109, 111>>) /\ ~ret.err.isErr
       => ReturnsProduct(<<109, 111>>, 30 * 24)
  /\ Int64With(<<119>>) /\ ~ret.err.isErr => ReturnsProduct(<<119>>, 7 * 24)
  /\ Int64With(<<100>>) /\ ~ret.err.isErr => ReturnsProduct(<<100>>, 24)
  /\ Int64With(<<121>>) /\ ~ret.err.isErr => ReturnsProduct(<<121>>, 365 * 24)

\* C30: every UserID and GroupID that a successful UnmarshalText or
\* UnmarshalJSON stores lies in 0..65535, whether it came from a number, from
\* the empty string or -1 (the ID of the process) or from the look-up of an
\* account name.
C30_StoredIDInRange ==
  (IsUserOp \/ IsGroupOp) /\ pc = "returned" /\ ~ret.err.isErr
    => ~ret.val.neg /\ ~OutOfRange(ret.val)

====
